---------------------------- MODULE Spec2Model ----------------------------
(***************************************************************************)
(* A model of mcp-server-salesforce: the state holder (state.py), the URI  *)
(* dispatcher (uri_handlers.py), the CRM client wrapper                    *)
(* (salesforce_client.py) and the protocol handlers (server.py).           *)
(*                                                                         *)
(* Python values are modelled as follows.                                  *)
(*   str            a TLA+ string; characters are read with SubSeq         *)
(*   Optional[T]    None is <<>>, a present value v is <<v>>               *)
(*   dict           a sequence of [name, content] records in insertion     *)
(*                  order, with at most one record per key                 *)
(*   an exception   the "kind" of an outcome record is the exception class *)
(*                  name and "msg" is str(e); kind "ok" is a normal return *)
(***************************************************************************)
EXTENDS Naturals, Sequences, FiniteSets

VARIABLES
    notes,                        \* ServerState.notes
    sf_client,                    \* ServerState._sf_client
    sf_initialization_attempted,  \* ServerState._sf_initialization_attempted
    constructed,                  \* number of SalesforceClient() invocations so far
    lastCtorFailed,               \* history: the most recent SalesforceClient() raised
    hasConstructed,               \* history: SalesforceClient() invocations made by has_salesforce_client
    written,                      \* history: name -> Optional content of the latest add_note
    requests,                     \* each concurrent request's position in get_salesforce_client
    last                          \* the most recent call: its name, arguments, outcome and CRM calls

vars == <<notes, sf_client, sf_initialization_attempted, constructed,
          lastCtorFailed, hasConstructed, written, requests, last>>

stateVars == <<notes, sf_client, sf_initialization_attempted, constructed,
               lastCtorFailed, hasConstructed, written, requests>>

-----------------------------------------------------------------------------
(* Bounds of the model.                                                    *)

MaxNames == 2

MaxContents == 2

MaxConstructions == 3

MaxRequests == 2

-----------------------------------------------------------------------------
(* Python values.                                                          *)

None == <<>>

Some(v) == <<v>>

\* The outcome of a call: a normal return of `value`, or an exception of
\* class `kind` whose str() is `msg`.
Return(value) == [value |-> value, kind |-> "ok", msg |-> ""]

Raise(kind, msg) == [value |-> None, kind |-> kind, msg |-> msg]

\* The fields of the server state as they are when a call starts.
Pre ==
    [notes |-> notes, sf_client |-> sf_client,
     constructed |-> constructed,
     lastCtorFailed |-> lastCtorFailed, attempted |-> sf_initialization_attempted]

\* One call as it is recorded in `last`: `pre` is the state it started in and
\* `calls` the sequence of calls it made on its collaborators (the client
\* constructor, the CRM client).
Call(op, args, outcome, calls) ==
    [value |-> outcome.value, kind |-> outcome.kind, msg |-> outcome.msg, op |-> op,
     args |-> args, calls |-> calls, pre |-> Pre]

\* The values an input of a call ranges over: all of S where the call
\* consults it, a single value where it does not.
Only(consulted, S, default) == IF consulted THEN S ELSE {default}

-----------------------------------------------------------------------------
(* str operations.                                                         *)

CharAt(s, i) == SubSeq(s, i, i)

\* sub in s
Contains(s, sub) ==
    \E i \in 1..(Len(s) + 1) :
        /\ i + Len(sub) - 1 <= Len(s)
        /\ SubSeq(s, i, i + Len(sub) - 1) = sub

RECURSIVE Cat(_)
\* ''.join(parts)
Cat(parts) == IF parts = <<>> THEN "" ELSE Head(parts) \o Cat(Tail(parts))

\* Every sequence over S of length 0..n.
SeqsUpTo(S, n) == UNION {[1..k -> S] : k \in 0..n}

\* Every string that is a concatenation of at most n of the given chunks.
Strings(chunks, n) == {Cat(p) : p \in SeqsUpTo(chunks, n)}

-----------------------------------------------------------------------------
(* The state holder: state.py.                                             *)

NameLetters == <<"a", "b", "c">>

ContentLetters == <<"x", "y", "z">>

\* Note names and contents passed to add_note / get_note.
NoteNames == {NameLetters[i] : i \in 1..MaxNames}

NoteContents == {ContentLetters[i] : i \in 1..MaxContents}

\* k in d
HasKey(d, k) == \E i \in 1..Len(d) : d[i].name = k

\* d.get(k)
DictGet(d, k) ==
    IF HasKey(d, k)
    THEN Some(d[CHOOSE i \in 1..Len(d) : d[i].name = k].content)
    ELSE None

\* A plausible slip: the entry is appended even when the key is present.
DictSetAppend(d, k, v) == Append(d, [name |-> k, content |-> v])

\* d[k] = v: a present key keeps its place and takes the new value, a new
\* key is appended.
DictSet(d, k, v) ==
    IF HasKey(d, k)
    THEN [i \in 1..Len(d) |-> IF d[i].name = k THEN [name |-> k, content |-> v] ELSE d[i]]
    ELSE Append(d, [name |-> k, content |-> v])

\* list(d.keys())
DictKeys(d) == [i \in 1..Len(d) |-> d[i].name]

PreviouslyFailed ==
    "Salesforce client initialization previously failed. Set force_new=True to retry."

\* What SalesforceClient() can do when state.py invokes it: return an
\* instance, or raise SalesforceAuthError (missing credentials, failed login).
ConstructorOutcomes ==
    { "ok", "Missing required Salesforce credentials", "Failed to authenticate with Salesforce" }

\* The instance a constructor invocation returns is named by the ordinal of
\* that invocation, so two invocations never return the same instance.
NewInstance == constructed + 1

\* The requests that may run get_salesforce_client concurrently, and the
\* record of one that has not entered it.
Requests == 1..MaxRequests

Idle == [at |-> "idle", force_new |-> FALSE, invoked |-> FALSE, result |-> Return(None)]

StateInit ==
    /\ requests = [p \in Requests |-> Idle]
    /\ notes = <<>>
    /\ sf_client = None
    /\ sf_initialization_attempted = FALSE
    /\ constructed = 0
    /\ lastCtorFailed = FALSE
    /\ hasConstructed = 0
    /\ written = [n \in NoteNames |-> None]

\* A plausible slip: the mapping is replaced by the one new entry.
add_note_replacing_mapping(name, content) ==
    /\ notes' = <<[name |-> name, content |-> content]>>
    /\ written' = [written EXCEPT ![name] = Some(content)]
    /\ last' = Call("add_note", <<name, content>>, Return(None), <<>>)
    /\ UNCHANGED <<sf_client, sf_initialization_attempted, constructed,
                   lastCtorFailed, hasConstructed, requests>>

\* state.py lines 20-28
add_note(name, content) ==
    /\ notes' = DictSet(notes, name, content)
    /\ written' = [written EXCEPT ![name] = Some(content)]
    /\ last' = Call("add_note", <<name, content>>, Return(None), <<>>)
    /\ UNCHANGED <<sf_client, sf_initialization_attempted, constructed,
                   lastCtorFailed, hasConstructed, requests>>

get_note(name) ==
    /\ last' = Call("get_note", <<name>>, Return(DictGet(notes, name)), <<>>)
    /\ UNCHANGED stateVars

list_notes ==
    /\ last' = Call("list_notes", <<>>, Return(DictKeys(notes)), <<>>)
    /\ UNCHANGED stateVars

\* A plausible slip: the memoized failure is not consulted.
ShortCircuitsNever(force_new) == FALSE

\* state.py line 65: the memoized attempt stops a non-forced call.
ShortCircuits(force_new) == sf_initialization_attempted /\ ~force_new

\* A plausible slip: a cached client is returned even under force_new.
NeedsConstructionIgnoringForce(force_new) == sf_client = None

\* state.py line 64: whether the call goes on to (try to) construct.
NeedsConstruction(force_new) == force_new \/ sf_client = None

\* A plausible slip: a failed construction drops the cached client.
GetClientDroppingOnFailure(force_new, ctor) ==
    IF ~NeedsConstruction(force_new)
    THEN [attempted |-> sf_initialization_attempted, invoked |-> FALSE,
          out |-> Return(sf_client[1]), client |-> sf_client]
    ELSE IF ShortCircuits(force_new)
    THEN [attempted |-> sf_initialization_attempted, invoked |-> FALSE,
          out |-> Raise("SalesforceAuthError", PreviouslyFailed), client |-> sf_client]
    ELSE IF ctor = "ok"
    THEN [attempted |-> TRUE, invoked |-> TRUE,
          out |-> Return(NewInstance), client |-> Some(NewInstance)]
    ELSE [attempted |-> TRUE, invoked |-> TRUE,
          out |-> Raise("SalesforceAuthError", ctor), client |-> None]

\* The body of get_salesforce_client: the outcome, and the new values of the
\* three fields it may assign, given what the constructor does if invoked.
GetClient(force_new, ctor) ==
    IF ~NeedsConstruction(force_new)
    THEN [attempted |-> sf_initialization_attempted, invoked |-> FALSE,
          out |-> Return(sf_client[1]), client |-> sf_client]
    ELSE IF ShortCircuits(force_new)
    THEN [attempted |-> sf_initialization_attempted, invoked |-> FALSE,
          out |-> Raise("SalesforceAuthError", PreviouslyFailed), client |-> sf_client]
    ELSE IF ctor = "ok"
    THEN [attempted |-> TRUE, invoked |-> TRUE,
          out |-> Return(NewInstance), client |-> Some(NewInstance)]
    ELSE [attempted |-> TRUE, invoked |-> TRUE,
          out |-> Raise("SalesforceAuthError", ctor), client |-> sf_client]

\* The assignments and history updates of one run of get_salesforce_client.
ApplyGetClient(r, ctor, fromHas) ==
    /\ sf_client' = r.client
    /\ sf_initialization_attempted' = r.attempted
    /\ constructed' = IF r.invoked THEN constructed + 1 ELSE constructed
    /\ lastCtorFailed' = IF r.invoked THEN ctor # "ok" ELSE lastCtorFailed
    /\ hasConstructed' = IF r.invoked /\ fromHas THEN hasConstructed + 1 ELSE hasConstructed
    /\ r.invoked => constructed < MaxConstructions

CtorCalls(r) == IF r.invoked THEN <<"SalesforceClient">> ELSE <<>>

get_salesforce_client(force_new, ctor) ==
    LET r == GetClient(force_new, ctor) IN
    /\ ApplyGetClient(r, ctor, FALSE)
    /\ last' = Call("get_salesforce_client", <<force_new>>, r.out, CtorCalls(r))
    /\ UNCHANGED <<notes, written, requests>>

\* state.py lines 87-89: the probe initializes only when nothing is cached
\* and nothing was attempted.
ProbeInitializes == sf_client = None /\ ~sf_initialization_attempted

\* A plausible slip: the error of the lazy initialization is not swallowed.
ProbeOutcomePropagating(out) == IF out.kind = "ok" THEN Return(TRUE) ELSE out

\* state.py lines 90-94: the lazy initialization's outcome as a boolean.
ProbeOutcome(out) ==
    IF out.kind = "ok" THEN Return(TRUE)
    ELSE IF out.kind = "SalesforceAuthError" THEN Return(FALSE)
    ELSE out

has_salesforce_client(ctor) ==
    IF ProbeInitializes
    THEN LET r == GetClient(FALSE, ctor) IN
         /\ ApplyGetClient(r, ctor, TRUE)
         /\ last' = Call("has_salesforce_client", <<>>, ProbeOutcome(r.out), CtorCalls(r))
         /\ UNCHANGED <<notes, written, requests>>
    ELSE /\ last' = Call("has_salesforce_client", <<>>, Return(sf_client # None), <<>>)
         /\ UNCHANGED stateVars

Init ==
    /\ StateInit
    /\ last = Call("__init__", <<>>, Return(None), <<>>)

Next ==
    \/ \E n \in NoteNames, c \in NoteContents : add_note(n, c)
    \/ \E n \in NoteNames : get_note(n)
    \/ list_notes
    \/ \E f \in BOOLEAN, ctor \in ConstructorOutcomes : get_salesforce_client(f, ctor)
    \/ \E ctor \in ConstructorOutcomes : has_salesforce_client(ctor)

Spec == Init /\ [][Next]_vars

-----------------------------------------------------------------------------
(* Properties of the state holder, checked under Spec.                     *)

IsGet(force_new) ==
    last.op = "get_salesforce_client" /\ last.args = <<force_new>>

\* The call recorded in `last` invoked the constructor n times.
Invoked(n) ==
    /\ constructed = last.pre.constructed + n
    /\ last.calls = [i \in 1..n |-> "SalesforceClient"]

FailsFast ==
    /\ last.kind = "SalesforceAuthError"
    /\ Contains(last.msg, "previously failed")
    /\ Invoked(0)

\* C1 as stated: in every reachable state where the most recent client
\* construction attempt failed, get_salesforce_client(force_new=False) raises
\* the "previously failed" authentication error and does not invoke the
\* constructor; get_salesforce_client(force_new=True) invokes it again.
C1_Original ==
    /\ (IsGet(FALSE) /\ last.pre.lastCtorFailed) => FailsFast
    /\ (IsGet(TRUE) /\ last.pre.lastCtorFailed) => Invoked(1)

\* C1 as amended: in every reachable state where no client is cached and
\* the most recent client construction attempt failed,
\* get_salesforce_client(force_new=False) raises the "previously failed"
\* authentication error and does not invoke the constructor;
\* get_salesforce_client(force_new=True) invokes the constructor again (whether
\* or not a client is cached).
C1_FailsFastWhenNothingCached ==
    /\ (IsGet(FALSE) /\ last.pre.lastCtorFailed /\ last.pre.sf_client = None)
           => FailsFast
    /\ (IsGet(TRUE) /\ last.pre.lastCtorFailed) => Invoked(1)

\* A non-forced call failed fast after a failed construction, and a forced
\* call after a failed construction is what the state records.
C1_Witness ==
    /\ IsGet(FALSE)
    /\ last.pre.lastCtorFailed
    /\ last.pre.sf_client = None
    /\ FailsFast

\* C2: while a client is cached, every get_salesforce_client(force_new=False)
\* returns that same instance without invoking the constructor;
\* get_salesforce_client(force_new=True) always invokes the constructor and, on
\* success, caches and returns the newly constructed instance in place of the
\* old one.
C2_CachedInstanceAndForceNew ==
    /\ (IsGet(FALSE) /\ last.pre.sf_client # None) =>
           /\ last.kind = "ok"
           /\ Some(last.value) = last.pre.sf_client
           /\ sf_client = last.pre.sf_client
           /\ Invoked(0)
    /\ IsGet(TRUE) =>
           /\ Invoked(1)
           /\ last.kind = "ok" =>
                  /\ last.value = constructed
                  /\ sf_client = Some(last.value)
                  /\ sf_client # last.pre.sf_client

\* A forced call replaced a cached instance by a new one.
C2_Witness ==
    /\ IsGet(TRUE)
    /\ last.kind = "ok"
    /\ last.pre.sf_client = Some(1)
    /\ sf_client = Some(2)

NoDuplicates(seq) == \A i, j \in 1..Len(seq) : seq[i] = seq[j] => i = j

\* C4: get_note(name) returns the content of the most recent add_note for
\* that name (None when there was none); add_note never fails; list_notes
\* returns exactly the names added so far, each once.
C4_LastWriteWins ==
    /\ \A n \in NoteNames : DictGet(notes, n) = written[n]
    /\ last.op = "add_note" =>
           last.kind = "ok" /\ DictGet(notes, last.args[1]) = Some(last.args[2])
    /\ last.op = "get_note" =>
           last.kind = "ok" /\ last.value = written[last.args[1]]
    /\ last.op = "list_notes" =>
           /\ last.kind = "ok"
           /\ NoDuplicates(last.value)
           /\ {last.value[i] : i \in 1..Len(last.value)} =
                  {n \in NoteNames : written[n] # None}

\* A note was written a second time with another content, after another note
\* was added.
C4_Witness ==
    /\ last.op = "add_note"
    /\ Len(notes) = 2
    /\ Len(last.pre.notes) = 2
    /\ DictGet(last.pre.notes, last.args[1]) # None
    /\ DictGet(last.pre.notes, last.args[1]) # Some(last.args[2])
    /\ DictGet(notes, last.args[1]) = Some(last.args[2])

\* The most recent constructor invocation raised although a client was
\* cached, and the call in `last` started after it: a forced refresh failed.
AfterFailedRefresh == last.pre.lastCtorFailed /\ last.pre.sf_client # None

\* C26: a get_salesforce_client(force_new=True) whose construction fails
\* raises the authentication error, sets the attempted flag and leaves the
\* cached client as it was; afterwards has_salesforce_client() answers True
\* and get_salesforce_client(force_new=False) returns the old instance, both
\* without invoking the constructor.
C26_FailedRefreshKeepsClient ==
    /\ (IsGet(TRUE) /\ last.kind # "ok") =>
           /\ last.kind = "SalesforceAuthError"
           /\ Invoked(1)
           /\ sf_client = last.pre.sf_client
           /\ sf_initialization_attempted
    /\ (last.op = "has_salesforce_client" /\ AfterFailedRefresh) =>
           /\ last.kind = "ok"
           /\ last.value = TRUE
           /\ Invoked(0)
           /\ sf_client = last.pre.sf_client
    /\ (IsGet(FALSE) /\ AfterFailedRefresh) =>
           /\ last.kind = "ok"
           /\ Some(last.value) = last.pre.sf_client
           /\ Invoked(0)
           /\ sf_client = last.pre.sf_client

\* After the first instance was cached and a forced refresh failed, a
\* non-forced call returned the first instance.
C26_Witness ==
    /\ IsGet(FALSE)
    /\ AfterFailedRefresh
    /\ last.pre.constructed = 2
    /\ last.pre.sf_client = Some(1)
    /\ last.kind = "ok"
    /\ last.value = 1

-----------------------------------------------------------------------------
(* The URI dispatcher: uri_handlers.py.                                    *)
(*                                                                         *)
(* A resource identifier is the pair of attributes the code reads from     *)
(* it: uri.scheme and uri.path, each an Optional[str].  The CRM client     *)
(* handed to the dispatcher is a collaborator: each call on it is logged   *)
(* and either returns a mapping or raises a SalesforceError.               *)

MaxPathChunks == 7

PathChunks == {"/", "object", "x"}

\* The values of uri.path: absent, or at most MaxPathChunks chunks.
UriPaths == {None} \cup {Some(p) : p \in Strings(PathChunks, MaxPathChunks)}

\* The values of uri.scheme: absent, empty, the two schemes and another one.
UriSchemes == {None, Some(""), Some("note"), Some("salesforce"), Some("http")}

Uris == [scheme : UriSchemes, path : UriPaths]

\* The note mappings handed to the dispatcher.
UriNotes ==
    { <<[name |-> "x", content |-> "one"]>>,
      <<[name |-> "object", content |-> "two"], [name |-> "xx", content |-> "three"]>> }

\* What a call on the CRM client does: return, or raise this error class.
CrmOutcomes == {"ok", "SalesforceAuthError", "SalesforceError"}

\* `not v` for an Optional[str]: None and "" are falsy.
Falsy(v) == v = None \/ v = Some("")

RECURSIVE LStrip(_, _)
\* s.lstrip(ch) for a single character ch
LStrip(s, ch) ==
    IF Len(s) > 0 /\ CharAt(s, 1) = ch THEN LStrip(SubSeq(s, 2, Len(s)), ch) ELSE s

RECURSIVE Split(_, _)
\* s.split(sep) for a single character sep: empty pieces are kept
Split(s, sep) ==
    IF \E i \in 1..Len(s) : CharAt(s, i) = sep
    THEN LET i == CHOOSE k \in 1..Len(s) :
                      /\ CharAt(s, k) = sep
                      /\ \A j \in 1..(k - 1) : CharAt(s, j) # sep
         IN <<SubSeq(s, 1, i - 1)>> \o Split(SubSeq(s, i + 1, Len(s)), sep)
    ELSE <<s>>

NonEmpty(p) == p # ""

\* A plausible slip: the pieces are not filtered, so "a//b" has an empty segment.
PathPartsUnfiltered(path) == Split(LStrip(path, "/"), "/")

\* [p for p in path.lstrip('/').split('/') if p]
PathParts(path) == SelectSeq(Split(LStrip(path, "/"), "/"), NonEmpty)

\* A plausible slip: the scheme is not checked.
parse_uri_unchecked(uri) ==
    Return(<<uri.scheme[1], PathParts(IF Falsy(uri.path) THEN "" ELSE uri.path[1])>>)

parse_uri(uri) ==
    IF Falsy(uri.scheme)
    THEN Raise("UriParseError", "Missing URI scheme")
    ELSE Return(<<uri.scheme[1], PathParts(IF Falsy(uri.path) THEN "" ELSE uri.path[1])>>)

\* A call with its outcome and the log of the collaborator calls it made.
Ran(outcome, calls) == [calls |-> calls, out |-> outcome]

\* A plausible slip: the first segment is not looked up, any stored note is returned.
note_lookup_any(name, d) ==
    IF d = <<>>
    THEN Ran(Raise("ResourceNotFoundError", "Note not found: " \o name),
             << <<"notes.__contains__", name>> >>)
    ELSE Ran(Return(d[1].content),
             << <<"notes.__contains__", name>>, <<"notes.__getitem__", d[1].name>> >>)

\* uri_handlers.py lines 60-64
note_lookup(name, d) ==
    IF ~HasKey(d, name)
    THEN Ran(Raise("ResourceNotFoundError", "Note not found: " \o name),
             << <<"notes.__contains__", name>> >>)
    ELSE Ran(Return(DictGet(d, name)[1]),
             << <<"notes.__contains__", name>>, <<"notes.__getitem__", name>> >>)

handle_note_uri(uri, d) ==
    LET parsed == parse_uri(uri) IN
    IF parsed.kind # "ok" THEN Ran(parsed, <<>>)
    ELSE LET path_parts == parsed.value[2] IN
         IF path_parts = <<>>
         THEN Ran(Raise("ResourceNotFoundError", "No note name specified in URI"), <<>>)
         ELSE note_lookup(path_parts[1], d)

\* The mapping a successful CRM call returns, here with one entry naming
\* what was asked for.
CrmMapping(what) == <<[name |-> "name", content |-> what]>>

RECURSIVE JoinWith(_, _)
\* sep.join(parts)
JoinWith(parts, sep) ==
    IF parts = <<>> THEN ""
    ELSE IF Len(parts) = 1 THEN parts[1]
    ELSE parts[1] \o sep \o JoinWith(Tail(parts), sep)

\* json.dumps(d, indent=2) for a mapping of str to str
JsonDumpsIndent2(d) ==
    IF d = <<>> THEN "{}"
    ELSE "{\n  "
         \o JoinWith([i \in 1..Len(d) |-> "\"" \o d[i].name \o "\": \"" \o d[i].content \o "\""],
                     ",\n  ")
         \o "\n}"

\* One call on the CRM client: logged, then it returns or raises.
CrmCall(call, crm) ==
    Ran(IF crm = "ok" THEN Return(JsonDumpsIndent2(CrmMapping(call[2])))
        ELSE Raise(crm, "CRM failure"),
        <<call>>)

\* A plausible slip: the record branch is taken for two segments as well.
object_lookup_record_first(path_parts, crm) ==
    IF Len(path_parts) = 1
    THEN Ran(Raise("UriParseError", "Missing object name in URI"), <<>>)
    ELSE IF Len(path_parts) \in {2, 3}
    THEN CrmCall(<<"get_record", path_parts[2], path_parts[Len(path_parts)]>>, crm)
    ELSE Ran(Raise("UriParseError", "Unsupported Salesforce resource type: " \o path_parts[1]), <<>>)

\* uri_handlers.py lines 89-107, for resource_type == "object"
object_lookup(path_parts, crm) ==
    IF Len(path_parts) = 1
    THEN Ran(Raise("UriParseError", "Missing object name in URI"), <<>>)
    ELSE IF Len(path_parts) = 2
    THEN CrmCall(<<"describe_object", path_parts[2]>>, crm)
    ELSE IF Len(path_parts) = 3
    THEN CrmCall(<<"get_record", path_parts[2], path_parts[3]>>, crm)
    ELSE Ran(Raise("UriParseError", "Unsupported Salesforce resource type: " \o path_parts[1]), <<>>)

handle_salesforce_uri(uri, crm) ==
    LET parsed == parse_uri(uri) IN
    IF parsed.kind # "ok" THEN Ran(parsed, <<>>)
    ELSE LET path_parts == parsed.value[2] IN
         IF path_parts = <<>>
         THEN Ran(Raise("UriParseError", "Invalid Salesforce URI format"), <<>>)
         ELSE IF path_parts[1] = "object"
         THEN object_lookup(path_parts, crm)
         ELSE Ran(Raise("UriParseError",
                        "Unsupported Salesforce resource type: " \o path_parts[1]), <<>>)

\* str(scheme) inside an f-string
SchemeText(scheme) == IF scheme = None THEN "None" ELSE scheme[1]

\* A plausible slip: a salesforce URI is dispatched even without a client.
read_resource_unguarded(uri, d, client, crm) ==
    IF uri.scheme = Some("note") THEN handle_note_uri(uri, d)
    ELSE IF uri.scheme = Some("salesforce") THEN handle_salesforce_uri(uri, crm)
    ELSE Ran(Raise("ValueError", "Unsupported URI scheme: " \o SchemeText(uri.scheme)), <<>>)

read_resource(uri, d, client, crm) ==
    IF uri.scheme = Some("note") THEN handle_note_uri(uri, d)
    ELSE IF uri.scheme = Some("salesforce")
    THEN IF client = None
         THEN Ran(Raise("ValueError", "Salesforce client not provided for salesforce:// URI"), <<>>)
         ELSE handle_salesforce_uri(uri, crm)
    ELSE Ran(Raise("ValueError", "Unsupported URI scheme: " \o SchemeText(uri.scheme)), <<>>)

\* The position of the first occurrence of sub in s; sub occurs in s.
IndexOf(s, sub) ==
    CHOOSE i \in 1..Len(s) :
        /\ i + Len(sub) - 1 <= Len(s)
        /\ SubSeq(s, i, i + Len(sub) - 1) = sub
        /\ \A j \in 1..(i - 1) : SubSeq(s, j, j + Len(sub) - 1) # sub

\* pydantic's AnyUrl(text) for a text "scheme://authority" followed by an
\* optional path that starts with "/": the attributes of the parsed
\* identifier.  Without a path, uri.path is None.
AnyUrl(text) ==
    LET i == IndexOf(text, "://")
        rest == SubSeq(text, i + 3, Len(text))
        j == IF Contains(rest, "/") THEN IndexOf(rest, "/") ELSE Len(rest) + 1
    IN [scheme |-> Some(SubSeq(text, 1, i - 1)),
        path |-> IF j <= Len(rest) THEN Some(SubSeq(rest, j, Len(rest))) ELSE None,
        host |-> Some(SubSeq(rest, 1, j - 1))]

MaxUrlPathChunks == 4

UrlSchemes == {"note", "salesforce"}

UrlAuthorities == {"internal", "object"}

\* The paths of the identifiers given as text: none, or "/" and more chunks.
UrlPaths == {""} \cup {"/" \o q : q \in Strings({"/", "foo", "x"}, MaxUrlPathChunks)}

\* The calls of the dispatcher's functions, as actions.  The functions keep
\* no state of their own, so each behaviour makes one call, on any input.
NoCallYet == last.op = "__init__"

CallParseUri(uri) ==
    /\ last' = Call("parse_uri", <<uri>>, parse_uri(uri), <<>>)
    /\ UNCHANGED stateVars

CallHandleNoteUri(uri) ==
    LET r == handle_note_uri(uri, notes) IN
    /\ last' = Call("handle_note_uri", <<uri>>, r.out, r.calls)
    /\ UNCHANGED stateVars

CallHandleSalesforceUri(uri, crm) ==
    LET r == handle_salesforce_uri(uri, crm) IN
    /\ last' = Call("handle_salesforce_uri", <<uri>>, r.out, r.calls)
    /\ UNCHANGED stateVars

CallReadResource(uri, client, crm) ==
    LET r == read_resource(uri, notes, client, crm) IN
    /\ last' = Call("read_resource", <<uri, client>>, r.out, r.calls)
    /\ UNCHANGED stateVars

\* parse_uri(AnyUrl(text)), as in test_parse_uri_success.
CallParseUrl(scheme, authority, path) ==
    LET text == scheme \o "://" \o authority \o path IN
    /\ last' = Call("parse_uri(AnyUrl)", <<text, scheme, authority, path>>,
                    parse_uri(AnyUrl(text)), <<>>)
    /\ UNCHANGED stateVars

UriInit ==
    /\ requests = [p \in Requests |-> Idle]
    /\ notes \in UriNotes
    /\ sf_client = None
    /\ sf_initialization_attempted = FALSE
    /\ constructed = 0
    /\ lastCtorFailed = FALSE
    /\ hasConstructed = 0
    /\ written = [n \in NoteNames |-> None]
    /\ last = Call("__init__", <<>>, Return(None), <<>>)

UriNext ==
    \/ NoCallYet /\ \E uri \in Uris : CallParseUri(uri)
    \/ NoCallYet /\ \E uri \in Uris : CallHandleNoteUri(uri)
    \/ NoCallYet /\ \E uri \in Uris, crm \in CrmOutcomes : CallHandleSalesforceUri(uri, crm)
    \/ NoCallYet /\ \E uri \in Uris, client \in {None, Some(1)}, crm \in CrmOutcomes :
                         CallReadResource(uri, client, crm)
    \/ NoCallYet /\ \E scheme \in UrlSchemes, authority \in UrlAuthorities, path \in UrlPaths :
                         CallParseUrl(scheme, authority, path)

SpecUri == UriInit /\ [][UriNext]_vars

-----------------------------------------------------------------------------
(* Properties of the URI dispatcher, checked under SpecUri.                *)

\* The identifier of the dispatcher call recorded in `last`, and its segments.
LastUri == last.args[1]

LastParts == PathParts(IF Falsy(LastUri.path) THEN "" ELSE LastUri.path[1])

IsDispatcherCall == last.op \in {"parse_uri", "handle_note_uri", "handle_salesforce_uri", "read_resource"}

\* The call resolved a salesforce identifier against a CRM client.
SalesforceResolved ==
    \/ last.op = "handle_salesforce_uri" /\ LastUri.scheme = Some("salesforce")
    \/ last.op = "read_resource" /\ LastUri.scheme = Some("salesforce") /\ last.args[2] # None

ParseErrorNoCall == last.kind = "UriParseError" /\ last.calls = <<>>

\* C5: for a salesforce identifier whose first segment is "object", one
\* further segment X makes exactly the call describe_object(X), two further
\* segments X, I make exactly the call get_record(X, I), no further segment is
\* a parse error about the missing object name, and three or more further
\* segments, an empty path or another first segment are parse errors; no
\* parse error comes with a CRM call.
C5_SalesforceDispatch ==
    SalesforceResolved =>
        /\ LastParts = <<>> => ParseErrorNoCall
        /\ (LastParts # <<>> /\ LastParts[1] # "object") => ParseErrorNoCall
        /\ (LastParts # <<>> /\ LastParts[1] = "object") =>
               /\ Len(LastParts) = 1 =>
                      ParseErrorNoCall /\ Contains(last.msg, "Missing object name")
               /\ Len(LastParts) = 2 =>
                      last.calls = << <<"describe_object", LastParts[2]>> >>
               /\ Len(LastParts) = 3 =>
                      last.calls = << <<"get_record", LastParts[2], LastParts[3]>> >>
               /\ Len(LastParts) >= 4 => ParseErrorNoCall
        /\ last.kind = "UriParseError" => last.calls = <<>>

\* A record lookup whose object name and record id differ was dispatched.
C5_Witness ==
    /\ SalesforceResolved
    /\ last.kind = "ok"
    /\ last.calls = << <<"get_record", "x", "xobject">> >>

\* The call resolved a note identifier.
NoteResolved ==
    /\ last.op \in {"handle_note_uri", "read_resource"}
    /\ LastUri.scheme = Some("note")

\* C6: for a note identifier, a path without a segment and a first segment
\* that names no stored note both fail with a not-found error; otherwise the
\* read returns exactly the content stored under that name.
C6_NoteRead ==
    NoteResolved =>
        IF LastParts = <<>> THEN last.kind = "ResourceNotFoundError"
        ELSE IF ~HasKey(notes, LastParts[1]) THEN last.kind = "ResourceNotFoundError"
        ELSE last.kind = "ok" /\ Some(last.value) = DictGet(notes, LastParts[1])

\* The second of two stored notes was read, through a path with more than
\* one segment.
C6_Witness ==
    /\ NoteResolved
    /\ Len(LastParts) > 1
    /\ LastParts[1] = "xx"
    /\ last.kind = "ok"
    /\ last.value = "three"

\* C7 as stated: an identifier whose scheme is absent fails with a parse error
\* (UriParseError) at both parse_uri and read_resource.
C7_Original ==
    (last.op \in {"parse_uri", "read_resource"} /\ LastUri.scheme = None) =>
        last.kind = "UriParseError"

\* C8: read_resource rejects every scheme other than "note" and
\* "salesforce" as unsupported, and rejects scheme "salesforce" without a
\* client as a missing client; neither looks a note up nor calls the CRM.
C8_UnsupportedScheme ==
    last.op = "read_resource" =>
        /\ LastUri.scheme \notin {Some("note"), Some("salesforce")} =>
               /\ last.kind = "ValueError"
               /\ Contains(last.msg, "Unsupported URI scheme")
               /\ last.calls = <<>>
        /\ (LastUri.scheme = Some("salesforce") /\ last.args[2] = None) =>
               /\ last.kind = "ValueError"
               /\ Contains(last.msg, "client not provided")
               /\ last.calls = <<>>

\* A salesforce identifier that names an object's metadata was read without
\* a client.
C8_Witness ==
    /\ last.op = "read_resource"
    /\ LastUri.scheme = Some("salesforce")
    /\ last.args[2] = None
    /\ LastParts = <<"object", "x">>
    /\ last.kind = "ValueError"

-----------------------------------------------------------------------------
(* The CRM client wrapper: salesforce_client.py.                           *)
(*                                                                         *)
(* The CRM API library is a collaborator: each call on it is logged and    *)
(* either returns a response or raises an exception of the library (kind   *)
(* "Exception") with some message; getattr on it finds the object or       *)
(* raises AttributeError.                                                  *)

MaxMessageChunks == 2

MessageChunks == {"LOG", "in ", "In", "Authentication", "x"}

\* str(e) of the exceptions the library raises.
RawMessages == Strings(MessageChunks, MaxMessageChunks)

UpperCase == "ABCDEFGHIJKLMNOPQRSTUVWXYZ"

LowerCase == "abcdefghijklmnopqrstuvwxyz"

\* c.lower() for one character
LowerChar(c) ==
    IF \E i \in 1..Len(UpperCase) : CharAt(UpperCase, i) = c
    THEN CharAt(LowerCase, CHOOSE i \in 1..Len(UpperCase) : CharAt(UpperCase, i) = c)
    ELSE c

RECURSIVE Lower(_)
\* s.lower()
Lower(s) == IF s = "" THEN "" ELSE LowerChar(CharAt(s, 1)) \o Lower(SubSeq(s, 2, Len(s)))

SalesforceErrorClasses ==
    {"SalesforceError", "SalesforceAuthError", "SalesforceQueryError", "SalesforceDataError"}

\* A plausible slip: the operation name is tested before the message.
salesforce_error_handler_query_first(operation_name, r) ==
    IF r.kind = "ok" \/ r.kind \in SalesforceErrorClasses THEN r
    ELSE IF Contains(Lower(operation_name), "query")
    THEN Raise("SalesforceQueryError", "Error during " \o operation_name \o ": " \o r.msg)
    ELSE IF Contains(Lower(r.msg), "authentication") \/ Contains(Lower(r.msg), "login")
    THEN Raise("SalesforceAuthError",
               "Authentication error during " \o operation_name \o ": " \o r.msg)
    ELSE Raise("SalesforceDataError", "Error during " \o operation_name \o ": " \o r.msg)

\* The decorator's wrapper, applied to the outcome r of the wrapped function.
salesforce_error_handler(operation_name, r) ==
    IF r.kind = "ok" \/ r.kind \in SalesforceErrorClasses THEN r
    ELSE IF Contains(Lower(r.msg), "authentication") \/ Contains(Lower(r.msg), "login")
    THEN Raise("SalesforceAuthError",
               "Authentication error during " \o operation_name \o ": " \o r.msg)
    ELSE IF Contains(Lower(operation_name), "query")
    THEN Raise("SalesforceQueryError", "Error during " \o operation_name \o ": " \o r.msg)
    ELSE Raise("SalesforceDataError", "Error during " \o operation_name \o ": " \o r.msg)

\* The operation names the decorator is applied with.
OperationNames ==
    {"SOQL query", "record creation", "record update", "record deletion",
     "record retrieval", "object listing", "object description",
     "test operation", "query operation", "data operation", "Bulk QUERY"}

\* What a wrapped function can do: return (kind "ok"), raise a categorized
\* error, or raise any other exception, with message msg.
FuncKinds == {"ok", "Exception"} \cup SalesforceErrorClasses

Func(kind, msg) == IF kind = "ok" THEN Return("success") ELSE Raise(kind, msg)

\* What a call on the library can do: raise an exception with message
\* failure[1], or return `response` when failure is None.
LibFailures == {None} \cup {Some(m) : m \in RawMessages}

Lib(failure, response) ==
    IF failure = None THEN Return(response) ELSE Raise("Exception", failure[1])

ObjectNames == {"Account"}

RecordIds == {"001"}

FieldLists == {None, Some(<<>>), Some(<<"Id">>), Some(<<"Id", "Name">>)}

RecordData == {<<[name |-> "Name", content |-> "Acme"]>>}

Queries == {"SELECT Id FROM Account"}

\* client.query(...) responses: the 'records' key may be missing.
QueryResponses ==
    {[records |-> None], [records |-> Some(<<>>)], [records |-> Some(<<"r1">>)],
     [records |-> Some(<<"r1", "r2">>)]}

\* sf_object.create(...) responses: the 'errors' key may be missing.
CreateResponses ==
    [success : BOOLEAN, id : {"001"},
     errors : {None, Some(<<>>), Some(<<"e1">>), Some(<<"e1", "e2">>)}]

\* client.describe() responses: the 'sobjects' key may be missing.
DescribeResponses == {[sobjects |-> None], [sobjects |-> Some(<<"Account", "Contact">>)]}

\* salesforce_client.py lines 131-148: getattr finds the object or not.
get_sobject(object_name, found) ==
    IF found THEN Return(object_name)
    ELSE Raise("SalesforceError", "Salesforce object '" \o object_name \o "' not found")

\* A library call made on the object that _get_sobject returned, if it did.
OnObject(object_name, found, call, body) ==
    LET o == get_sobject(object_name, found) IN
    IF o.kind # "ok" THEN Ran(o, << <<"getattr", object_name>> >>)
    ELSE Ran(body, << <<"getattr", object_name>>, call >>)

query(soql_query, lib) ==
    Ran(salesforce_error_handler("SOQL query",
            IF lib.kind # "ok" THEN lib
            ELSE Return(IF lib.value.records = None THEN <<>> ELSE lib.value.records[1])),
        << <<"client.query", soql_query>> >>)

\* A plausible slip: only the first reported error is put in the message.
create_result_first_error(object_name, result) ==
    IF result.success THEN Return(result.id)
    ELSE Raise("SalesforceDataError",
               "Failed to create " \o object_name \o ": "
               \o (IF result.errors = None \/ result.errors = Some(<<>>)
                   THEN "Unknown error" ELSE result.errors[1][1]))

\* salesforce_client.py lines 189-197
create_result(object_name, result) ==
    IF result.success THEN Return(result.id)
    ELSE Raise("SalesforceDataError",
               "Failed to create " \o object_name \o ": "
               \o (IF result.errors = None \/ result.errors = Some(<<>>)
                   THEN "Unknown error" ELSE JoinWith(result.errors[1], "; ")))

create_record(object_name, data, found, lib) ==
    LET r == OnObject(object_name, found, <<"create", object_name, data>>,
                      IF lib.kind # "ok" THEN lib ELSE create_result(object_name, lib.value))
    IN Ran(salesforce_error_handler("record creation", r.out), r.calls)

update_record(object_name, record_id, data, found, lib) ==
    LET r == OnObject(object_name, found, <<"update", object_name, record_id, data>>,
                      IF lib.kind # "ok" THEN lib ELSE Return(None))
    IN Ran(salesforce_error_handler("record update", r.out), r.calls)

delete_record(object_name, record_id, found, lib) ==
    LET r == OnObject(object_name, found, <<"delete", object_name, record_id>>,
                      IF lib.kind # "ok" THEN lib ELSE Return(None))
    IN Ran(salesforce_error_handler("record deletion", r.out), r.calls)

get_record_with_fields(object_name, record_id, fields, lib) ==
    LET q == "SELECT " \o JoinWith(fields, ", ") \o " FROM " \o object_name
             \o " WHERE Id = '" \o record_id \o "'"
        r == query(q, lib)
    IN IF r.out.kind # "ok" THEN r
       ELSE IF r.out.value # <<>> THEN Ran(Return(r.out.value[1]), r.calls)
       ELSE Ran(Return(<<>>), r.calls)

\* A plausible slip: only an absent field list selects the direct fetch.
get_record_unless_none(object_name, record_id, fields, found, lib, qlib) ==
    LET r == IF fields # None
             THEN get_record_with_fields(object_name, record_id, fields[1], qlib)
             ELSE OnObject(object_name, found, <<"get", object_name, record_id>>, lib)
    IN Ran(salesforce_error_handler("record retrieval", r.out), r.calls)

get_record(object_name, record_id, fields, found, lib, qlib) ==
    LET r == IF fields # None /\ fields # Some(<<>>)
             THEN get_record_with_fields(object_name, record_id, fields[1], qlib)
             ELSE OnObject(object_name, found, <<"get", object_name, record_id>>, lib)
    IN Ran(salesforce_error_handler("record retrieval", r.out), r.calls)

get_available_objects(lib) ==
    Ran(salesforce_error_handler("object listing",
            IF lib.kind # "ok" THEN lib
            ELSE Return(IF lib.value.sobjects = None THEN <<>> ELSE lib.value.sobjects[1])),
        << <<"client.describe">> >>)

describe_object(object_name, found, lib) ==
    LET r == OnObject(object_name, found, <<"describe", object_name>>, lib)
    IN Ran(salesforce_error_handler("object description", r.out), r.calls)

\* constants.py lines 18-22
ENV_SF_USERNAME == "SALESFORCE_USERNAME"

ENV_SF_PASSWORD == "SALESFORCE_PASSWORD"

ENV_SF_TOKEN == "SALESFORCE_SECURITY_TOKEN"

DEFAULT_SF_DOMAIN == "login"

\* The explicit parameters of SalesforceClient(...): absent, empty or given.
CredentialParameters == {None, Some(""), Some("p")}

\* The environment after load_dotenv(): a variable is unset, empty or set.
EnvironmentValues == {None, Some(""), Some("e")}

\* What the login of the CRM library does: succeed, or raise with a message.
LoginFailures == {None, Some("INVALID_LOGIN")}

\* A plausible slip: the environment wins over the explicit parameter.
ResolveEnvironmentFirst(explicit, environment) ==
    IF Falsy(environment) THEN explicit ELSE environment

\* explicit or os.getenv(NAME)
Resolve(explicit, environment) == IF Falsy(explicit) THEN environment ELSE explicit

\* os.getenv(NAME, default)
GetenvOr(environment, default) == IF environment = None THEN Some(default) ELSE environment

\* salesforce_client.py lines 106-112
MissingVariables(username, password, security_token) ==
    (IF Falsy(username) THEN <<ENV_SF_USERNAME>> ELSE <<>>)
    \o (IF Falsy(password) THEN <<ENV_SF_PASSWORD>> ELSE <<>>)
    \o (IF Falsy(security_token) THEN <<ENV_SF_TOKEN>> ELSE <<>>)

\* SalesforceClient.__init__: `given` are the parameters, `env` the
\* environment and `login` what the library's login does if attempted.
SalesforceClientInit(given, env, login) ==
    LET username == Resolve(given.username, env.username)
        password == Resolve(given.password, env.password)
        security_token == Resolve(given.security_token, env.security_token)
        domain == Resolve(given.domain, GetenvOr(env.domain, DEFAULT_SF_DOMAIN))
        missing == MissingVariables(username, password, security_token)
    IN IF missing # <<>>
       THEN Ran(Raise("SalesforceAuthError",
                      "Missing required Salesforce credentials: " \o JoinWith(missing, ", ")
                      \o ". Provide credentials directly or set environment variables."),
                <<>>)
       ELSE Ran(IF login = None THEN Return("client")
                ELSE Raise("SalesforceAuthError",
                           "Failed to authenticate with Salesforce: " \o login[1]),
                << <<"Salesforce", username, password, security_token, domain>> >>)

Credentials(values) ==
    [username : values, password : values, security_token : values, domain : values]

\* The login is attempted when none of the three credentials is missing.
LoginAttempted(given, env) == SalesforceClientInit(given, env, None).calls # <<>>

PublicOperations ==
    {"query", "create_record", "update_record", "delete_record", "get_record",
     "get_available_objects", "describe_object"}

Record(op, args, r) ==
    /\ last' = Call(op, args, r.out, r.calls)
    /\ UNCHANGED stateVars

CallWrapped(operation_name, r) ==
    Record("wrapper", <<operation_name, r>>, Ran(salesforce_error_handler(operation_name, r), <<>>))

ClientInit ==
    /\ StateInit
    /\ last = Call("__init__", <<>>, Return(None), <<>>)

ClientNext ==
    \/ NoCallYet /\ \E n \in OperationNames, k \in FuncKinds, m \in RawMessages :
           CallWrapped(n, Func(k, m))
    \/ NoCallYet /\ \E q \in Queries, f \in LibFailures, v \in QueryResponses :
           Record("query", <<q>>, query(q, Lib(f, v)))
    \/ NoCallYet /\ \E o \in ObjectNames, d \in RecordData, found \in BOOLEAN,
                       f \in LibFailures, v \in CreateResponses :
           Record("create_record", <<o, d>>, create_record(o, d, found, Lib(f, v)))
    \/ NoCallYet /\ \E o \in ObjectNames, i \in RecordIds, d \in RecordData, found \in BOOLEAN,
                       f \in LibFailures :
           Record("update_record", <<o, i, d>>, update_record(o, i, d, found, Lib(f, None)))
    \/ NoCallYet /\ \E o \in ObjectNames, i \in RecordIds, found \in BOOLEAN,
                       f \in LibFailures :
           Record("delete_record", <<o, i>>, delete_record(o, i, found, Lib(f, None)))
    \/ NoCallYet /\ \E o \in ObjectNames, i \in RecordIds, fields \in FieldLists,
                       found \in BOOLEAN, f \in LibFailures, v \in QueryResponses :
           Record("get_record", <<o, i, fields, found, f, v>>,
                  get_record(o, i, fields, found, Lib(f, CrmMapping("record")), Lib(f, v)))
    \/ NoCallYet /\ \E f \in LibFailures, v \in DescribeResponses :
           Record("get_available_objects", <<>>, get_available_objects(Lib(f, v)))
    \/ NoCallYet /\ \E o \in ObjectNames, found \in BOOLEAN, f \in LibFailures :
           Record("describe_object", <<o>>,
                  describe_object(o, found, Lib(f, CrmMapping("metadata"))))
    \/ NoCallYet /\ \E given \in Credentials(CredentialParameters),
                       env \in Credentials(EnvironmentValues) :
                   \E login \in Only(LoginAttempted(given, env), LoginFailures, None) :
           Record("SalesforceClient", [given |-> given, env |-> env, login |-> login],
                  SalesforceClientInit(given, env, login))

SpecClient == ClientInit /\ [][ClientNext]_vars

-----------------------------------------------------------------------------
(* Properties of the CRM client wrapper, checked under SpecClient.         *)

Categories == {"SalesforceAuthError", "SalesforceQueryError", "SalesforceDataError"}

\* C9 as stated: every failure that escapes a public client operation is an
\* authentication error, a query error or a data error.
C9_Original ==
    (last.op \in PublicOperations /\ last.kind # "ok") => last.kind \in Categories

\* word occurs in s, each letter in either case.
ContainsIgnoringCase(s, word) ==
    \E i \in 1..Len(s) :
        /\ i + Len(word) - 1 <= Len(s)
        /\ \A j \in 1..Len(word) :
               LowerChar(CharAt(s, i + j - 1)) = CharAt(word, j)

\* C10: a raw exception inside an operation wrapped by
\* salesforce_error_handler(op) becomes an authentication error if its message
\* contains "authentication" or "login" in any letter case, whatever op is;
\* otherwise a query error if op contains "query" in any letter case;
\* otherwise a data error.  A categorized Salesforce error is re-raised
\* unchanged and a normal result is returned unchanged.
C10_Categorization ==
    last.op = "wrapper" =>
        LET op == last.args[1]
            r == last.args[2]
        IN IF r.kind = "ok"
           THEN last.kind = "ok" /\ last.value = r.value
           ELSE IF r.kind \in SalesforceErrorClasses
           THEN last.kind = r.kind /\ last.msg = r.msg
           ELSE IF \/ ContainsIgnoringCase(r.msg, "authentication")
                   \/ ContainsIgnoringCase(r.msg, "login")
           THEN last.kind = "SalesforceAuthError"
           ELSE IF ContainsIgnoringCase(op, "query")
           THEN last.kind = "SalesforceQueryError"
           ELSE last.kind = "SalesforceDataError"

\* A raw exception whose message spells "login" in mixed case, raised inside
\* an operation whose name contains "query", became an authentication error.
C10_Witness ==
    /\ last.op = "wrapper"
    /\ last.args[1] = "SOQL query"
    /\ last.args[2].kind = "Exception"
    /\ last.args[2].msg = "LOGIn"
    /\ last.kind = "SalesforceAuthError"

-----------------------------------------------------------------------------
(* The protocol handlers: server.py.                                       *)
(*                                                                         *)
(* A handler runs against the server state and the CRM client it obtains   *)
(* from it.  Its inputs are the tool arguments (each an Optional value,    *)
(* None when the key is absent) and what its collaborators do: the client  *)
(* constructor, the CRM library and the session that delivers the          *)
(* resource-list-changed notification.  Every call a handler makes on a    *)
(* collaborator is logged, in order, as a tuple headed by the call's name. *)

\* arguments.get("name"), arguments.get("content")
ToolNameArgs == {None, Some(""), Some("a"), Some("b")}

ToolContentArgs == {None, Some(""), Some("x"), Some("y")}

\* arguments.get("query")
ToolQueryArgs == {None, Some(""), Some("SELECT Id FROM Account")}

\* arguments.get("object"), arguments.get("id"), arguments.get("data")
ToolObjectArgs == {None, Some(""), Some("Account")}

ToolIdArgs == {None, Some(""), Some("001")}

ToolDataArgs == {None, Some(<<>>), Some(<<[name |-> "Name", content |-> "Acme"]>>)}

\* What the CRM library does when a handler's client calls it.
ToolLibFailures == {None, Some("x"), Some("LOGIn")}

\* What session.send_resource_list_changed() does: deliver, or raise.
NotifyOutcomes == {"ok", "fail"}

\* A plausible slip: only an absent mapping is refused.
FalsyDictUnlessEmpty(v) == v = None

\* `not v` for an Optional mapping: None and {} are falsy.
FalsyDict(v) == v = None \/ v = Some(<<>>)

\* json.dumps(records, indent=2) for a list of str
JsonDumpsListIndent2(records) ==
    IF records = <<>> THEN "[]"
    ELSE "[\n  "
         \o JoinWith([i \in 1..Len(records) |-> "\"" \o records[i] \o "\""], ",\n  ")
         \o "\n]"

\* A plausible slip: the data is appended even when it is empty.
ResponseTextAlways(message, data) ==
    IF data = None THEN message ELSE message \o "\n\n" \o JsonDumpsListIndent2(data[1])

\* server.py lines 55-58: the text of a response; `data` is an Optional list.
ResponseText(message, data) ==
    IF data # None /\ data # Some(<<>>)
    THEN message \o "\n\n" \o JsonDumpsListIndent2(data[1])
    ELSE message

\* server.py lines 43-65: a list with one TextContent; `success` is not read.
format_response(success, message, data) ==
    <<[text |-> ResponseText(message, data), type |-> "text"]>>

\* The effect of a handler that did not ask the state holder for the client.
ClientUntouched ==
    [attempted |-> sf_initialization_attempted, invoked |-> FALSE, client |-> sf_client]

\* What a handler did: its outcome, its logged calls, and the effect of its
\* get_salesforce_client() on the state holder's fields.
Handled(outcome, calls, g) ==
    [attempted |-> g.attempted, calls |-> calls, invoked |-> g.invoked,
     out |-> outcome, client |-> g.client]

ConstructorLog(g) == IF g.invoked THEN << <<"SalesforceClient">> >> ELSE <<>>

NotifyLog == << <<"send_resource_list_changed">> >>

NotifyFailure == Raise("Exception", "notification not delivered")

\* A plausible slip: a categorized error is not caught by the handler.
ErrorResponsePropagating(prefix, e) == e

\* server.py lines 355-359 and alike: except SalesforceError as e
ErrorResponse(prefix, e) == Return(format_response(FALSE, prefix \o ": " \o e.msg, None))

\* state.get_salesforce_client() followed by one operation on the client it
\* returned; `operation` is that operation's outcome and calls.  Every
\* SalesforceError of either is turned into an error response.
WithClient(prefix, ctor, operation, onSuccess) ==
    LET g == GetClient(FALSE, ctor) IN
    IF g.out.kind # "ok"
    THEN Handled(ErrorResponse(prefix, g.out), ConstructorLog(g), g)
    ELSE IF operation.out.kind \in SalesforceErrorClasses
    THEN Handled(ErrorResponse(prefix, operation.out),
                 ConstructorLog(g) \o operation.calls, g)
    ELSE IF operation.out.kind # "ok"
    THEN Handled(operation.out, ConstructorLog(g) \o operation.calls, g)
    ELSE Handled(onSuccess.out, ConstructorLog(g) \o operation.calls \o onSuccess.calls, g)

\* A plausible slip: every handler that succeeds sends the notification.
RespondAlwaysNotifying(notifies, notify, message, data) ==
    IF notify = "ok" THEN Ran(Return(format_response(TRUE, message, data)), NotifyLog)
    ELSE Ran(NotifyFailure, NotifyLog)

\* The tail of a handler that succeeded: an optional notification, then the
\* success response.
Respond(notifies, notify, message, data) ==
    IF ~notifies THEN Ran(Return(format_response(TRUE, message, data)), <<>>)
    ELSE IF notify = "ok" THEN Ran(Return(format_response(TRUE, message, data)), NotifyLog)
    ELSE Ran(NotifyFailure, NotifyLog)

\* A plausible slip: the client is obtained before the arguments are checked.
MissingAfterClient(message) ==
    LET g == GetClient(FALSE, "ok") IN
    Handled(Raise("ValueError", message), ConstructorLog(g), g)

\* The required arguments are checked first: nothing else has happened yet.
Missing(message) == Handled(Raise("ValueError", message), <<>>, ClientUntouched)

\* A plausible slip: the notification is sent before the note is stored.
handle_add_note_notifying_first(arguments, notify) ==
    IF Falsy(arguments.name) \/ Falsy(arguments.content)
    THEN [calls |-> <<>>, out |-> Raise("ValueError", "Missing name or content"),
          stored |-> FALSE]
    ELSE LET r == Respond(TRUE, notify,
                          "Added note '" \o arguments.name[1] \o "' with content: "
                          \o arguments.content[1], None)
         IN IF r.out.kind # "ok" THEN [calls |-> r.calls, out |-> r.out, stored |-> FALSE]
            ELSE [calls |-> r.calls
                            \o << <<"state.add_note", arguments.name[1], arguments.content[1]>> >>,
                  out |-> r.out,
                  stored |-> TRUE]

\* server.py lines 305-330
handle_add_note(arguments, notify) ==
    IF Falsy(arguments.name) \/ Falsy(arguments.content)
    THEN [calls |-> <<>>, out |-> Raise("ValueError", "Missing name or content"),
          stored |-> FALSE]
    ELSE LET r == Respond(TRUE, notify,
                          "Added note '" \o arguments.name[1] \o "' with content: "
                          \o arguments.content[1], None)
         IN [calls |-> << <<"state.add_note", arguments.name[1], arguments.content[1]>> >>
                       \o r.calls,
             out |-> r.out,
             stored |-> TRUE]

\* server.py lines 332-359
handle_salesforce_query(arguments, ctor, lib) ==
    IF Falsy(arguments.query) THEN Missing("Missing query")
    ELSE LET op == query(arguments.query[1], lib) IN
         WithClient("Error executing query", ctor, op,
                    Respond(FALSE, "ok", "Query executed successfully. Results:",
                            Some(op.out.value)))

\* server.py lines 361-392
handle_salesforce_create(arguments, ctor, found, lib, notify) ==
    IF Falsy(arguments.object) \/ FalsyDict(arguments.data)
    THEN Missing("Missing object name or data")
    ELSE LET op == create_record(arguments.object[1], arguments.data[1], found, lib) IN
         WithClient("Error creating record", ctor, op,
                    Respond(TRUE, notify,
                            "Created " \o arguments.object[1] \o " record with ID: "
                            \o op.out.value, None))

\* server.py lines 394-423
handle_salesforce_update(arguments, ctor, found, lib) ==
    IF Falsy(arguments.object) \/ Falsy(arguments.id) \/ FalsyDict(arguments.data)
    THEN Missing("Missing object name, record ID, or data")
    ELSE LET op == update_record(arguments.object[1], arguments.id[1], arguments.data[1],
                                 found, lib)
         IN WithClient("Error updating record", ctor, op,
                       Respond(FALSE, "ok",
                               "Updated " \o arguments.object[1] \o " record with ID: "
                               \o arguments.id[1], None))

\* server.py lines 425-456
handle_salesforce_delete(arguments, ctor, found, lib, notify) ==
    IF Falsy(arguments.object) \/ Falsy(arguments.id)
    THEN Missing("Missing object name or record ID")
    ELSE LET op == delete_record(arguments.object[1], arguments.id[1], found, lib) IN
         WithClient("Error deleting record", ctor, op,
                    Respond(TRUE, notify,
                            "Deleted " \o arguments.object[1] \o " record with ID: "
                            \o arguments.id[1], None))

\* A plausible slip: only the parse error is re-wrapped.
RewrapParseOnly(out) ==
    IF out.kind = "UriParseError"
    THEN Raise("ValueError", "Invalid URI format: " \o out.msg)
    ELSE out

\* server.py lines 113-118: the except clauses of handle_read_resource
Rewrap(out) ==
    IF out.kind = "UriParseError"
    THEN Raise("ValueError", "Invalid URI format: " \o out.msg)
    ELSE IF out.kind = "ResourceNotFoundError"
    THEN Raise("ValueError", "Resource not found: " \o out.msg)
    ELSE IF out.kind \in SalesforceErrorClasses
    THEN Raise("ValueError", "Salesforce error: " \o out.msg)
    ELSE out

\* state.has_salesforce_client() as the first step of a handler: its answer
\* and the effect of its lazy initialization.
Probe(ctor) ==
    IF ProbeInitializes
    THEN LET g == GetClient(FALSE, ctor) IN
         [attempted |-> g.attempted, invoked |-> g.invoked, out |-> ProbeOutcome(g.out),
          client |-> g.client]
    ELSE [attempted |-> sf_initialization_attempted, invoked |-> FALSE,
          out |-> Return(sf_client # None), client |-> sf_client]

\* A plausible slip: the client is obtained without probing for it first.
handle_read_resource_without_probe(uri, ctor, crm) ==
    LET g == GetClient(FALSE, ctor) IN
    IF g.out.kind # "ok" THEN Handled(Rewrap(g.out), ConstructorLog(g), g)
    ELSE LET r == read_resource(uri, notes, g.client, crm)
         IN Handled(Rewrap(r.out), ConstructorLog(g) \o r.calls, g)

\* server.py lines 104-118.  When the probe answers True a client is cached,
\* so the get_salesforce_client() that follows returns it (state.py line 78).
handle_read_resource(uri, ctor, crm) ==
    LET p == Probe(ctor) IN
    IF p.out.kind # "ok" THEN Handled(Rewrap(p.out), ConstructorLog(p), p)
    ELSE LET client == IF p.out.value THEN p.client ELSE None
             r == read_resource(uri, notes, client, crm)
         IN Handled(Rewrap(r.out), ConstructorLog(p) \o r.calls, p)

\* The identifiers handed to handle_read_resource.
ServerUris ==
    [scheme : {Some("note"), Some("salesforce"), Some("http")},
     path : {None, Some("/a"), Some("/zz"), Some("/object"), Some("/object/Account"),
             Some("/object/Account/001")}]

ToolAddNote(arguments, notify) ==
    LET h == handle_add_note(arguments, notify) IN
    /\ notes' = IF h.stored THEN DictSet(notes, arguments.name[1], arguments.content[1])
                ELSE notes
    /\ written' = IF h.stored
                  THEN [written EXCEPT ![arguments.name[1]] = Some(arguments.content[1])]
                  ELSE written
    /\ last' = Call("handle_add_note", [notify |-> notify, arguments |-> arguments],
                    h.out, h.calls)
    /\ UNCHANGED <<sf_client, sf_initialization_attempted, constructed,
                   lastCtorFailed, hasConstructed, requests>>

\* A handler that touches the client only: its effect on the state holder.
Handle(op, args, h, ctor, fromHas) ==
    /\ ApplyGetClient(h, ctor, fromHas)
    /\ last' = Call(op, args, h.out, h.calls)
    /\ UNCHANGED <<notes, written, requests>>

ToolQuery(arguments, ctor, f, v) ==
    Handle("handle_salesforce_query",
           [ctor |-> ctor, failure |-> f, response |-> v, arguments |-> arguments],
           handle_salesforce_query(arguments, ctor, Lib(f, v)), ctor, FALSE)

ToolCreate(arguments, ctor, found, f, v, notify) ==
    Handle("handle_salesforce_create",
           [ctor |-> ctor, failure |-> f, response |-> v, found |-> found,
            notify |-> notify, arguments |-> arguments],
           handle_salesforce_create(arguments, ctor, found, Lib(f, v), notify), ctor, FALSE)

ToolUpdate(arguments, ctor, found, f) ==
    Handle("handle_salesforce_update",
           [ctor |-> ctor, failure |-> f, found |-> found, arguments |-> arguments],
           handle_salesforce_update(arguments, ctor, found, Lib(f, None)), ctor, FALSE)

ToolDelete(arguments, ctor, found, f, notify) ==
    Handle("handle_salesforce_delete",
           [ctor |-> ctor, failure |-> f, found |-> found, notify |-> notify,
            arguments |-> arguments],
           handle_salesforce_delete(arguments, ctor, found, Lib(f, None), notify), ctor, FALSE)

ReadResource(uri, ctor, crm) ==
    Handle("handle_read_resource", [ctor |-> ctor, uri |-> uri, crm |-> crm],
           handle_read_resource(uri, ctor, crm), ctor, TRUE)

\* create_record called directly on a client, as the handler's client is.
ClientCreate(o, d, found, f, v) ==
    Record("create_record", [failure |-> f, response |-> v, found |-> found, data |-> d,
                             object |-> o],
           create_record(o, d, found, Lib(f, v)))

\* arguments.get("style"), arguments.get("limit") of handle_get_prompt
PromptNames == {"summarize-notes", "analyze-salesforce-data", "other"}

PromptStyleArgs == {None, Some("brief"), Some("detailed")}

PromptLimitArgs == {None, Some("05"), Some(" 7"), Some("-1"), Some("abc"), Some("")}

DecimalDigits == "0123456789"

IsDigit(c) == \E i \in 1..10 : CharAt(DecimalDigits, i) = c

DigitValue(c) == (CHOOSE i \in 1..10 : CharAt(DecimalDigits, i) = c) - 1

RECURSIVE DigitsValue(_)
DigitsValue(s) ==
    IF s = "" THEN 0
    ELSE 10 * DigitsValue(SubSeq(s, 1, Len(s) - 1)) + DigitValue(CharAt(s, Len(s)))

RECURSIVE RStrip(_, _)
\* s.rstrip(ch) for a single character ch
RStrip(s, ch) ==
    IF Len(s) > 0 /\ CharAt(s, Len(s)) = ch THEN RStrip(SubSeq(s, 1, Len(s) - 1), ch) ELSE s

\* int(s) for a str of digits, signs and spaces: surrounding spaces are
\* dropped, one sign is allowed, at least one digit is required.
int(s) ==
    LET t == RStrip(LStrip(s, " "), " ")
        signed == Len(t) > 0 /\ CharAt(t, 1) \in {"+", "-"}
        d == IF signed THEN SubSeq(t, 2, Len(t)) ELSE t
    IN IF d # "" /\ \A i \in 1..Len(d) : IsDigit(CharAt(d, i))
       THEN Return(IF signed /\ CharAt(t, 1) = "-" THEN 0 - DigitsValue(d) ELSE DigitsValue(d))
       ELSE Raise("ValueError", "invalid literal for int() with base 10: '" \o s \o "'")

RECURSIVE NatStr(_)
NatStr(n) ==
    IF n < 10 THEN CharAt(DecimalDigits, n + 1)
    ELSE NatStr(n \div 10) \o CharAt(DecimalDigits, (n % 10) + 1)

\* str(n) for an int
IntStr(n) == IF n < 0 THEN "-" \o NatStr(0 - n) ELSE NatStr(n)

\* `arguments or {}`: the value of each key, None when the key is absent.
PromptArguments(arguments) ==
    IF arguments = None THEN [object |-> None, style |-> None, limit |-> None]
    ELSE arguments[1]

\* A plausible slip: the row limit is always the default.
PromptLimitIgnoringArgument(limit) == Return(10)

\* server.py line 202: int(arguments.get("limit", "10"))
PromptLimit(limit) == int(IF limit = None THEN "10" ELSE limit[1])

PromptResult(description, text) ==
    [description |-> description,
     messages |-> <<[text |-> text, type |-> "text", role |-> "user"]>>]

\* server.py lines 175-178: one line per note, in the mapping's order.
NotesContent ==
    LET lines == JoinWith([i \in 1..Len(notes) |->
                              "- " \o notes[i].name \o ": " \o notes[i].content], "\n")
    IN IF lines = "" THEN "No notes available." ELSE lines

\* server.py lines 171-195
summarize_notes(arguments) ==
    LET style == IF arguments.style = None THEN "brief" ELSE arguments.style[1]
        detail_prompt == IF style = "detailed" THEN " Give extensive details." ELSE ""
    IN Return(PromptResult("Summarize the current notes",
                           "Here are the current notes to summarize:" \o detail_prompt
                           \o "\n\n" \o NotesContent))

\* server.py lines 197-223
analyze_salesforce_data(arguments, ctor, lib) ==
    IF Falsy(arguments.object)
    THEN Handled(Raise("ValueError", "Missing required argument 'object'"), <<>>,
                 ClientUntouched)
    ELSE LET limit == PromptLimit(arguments.limit) IN
         IF limit.kind # "ok" THEN Handled(limit, <<>>, ClientUntouched)
         ELSE LET g == GetClient(FALSE, ctor)
                  op == query("SELECT * FROM " \o arguments.object[1] \o " LIMIT "
                              \o IntStr(limit.value), lib)
              IN IF g.out.kind # "ok"
                 THEN Handled(Raise("ValueError",
                                    "Error retrieving Salesforce data: " \o g.out.msg),
                              ConstructorLog(g), g)
                 ELSE IF op.out.kind \in SalesforceErrorClasses
                 THEN Handled(Raise("ValueError",
                                    "Error retrieving Salesforce data: " \o op.out.msg),
                              ConstructorLog(g) \o op.calls, g)
                 ELSE IF op.out.kind # "ok"
                 THEN Handled(op.out, ConstructorLog(g) \o op.calls, g)
                 ELSE Handled(Return(PromptResult(
                                  "Analyze Salesforce " \o arguments.object[1] \o " data",
                                  "Please analyze the following " \o arguments.object[1]
                                  \o " data from Salesforce and provide insights:\n\n"
                                  \o JsonDumpsListIndent2(op.out.value))),
                              ConstructorLog(g) \o op.calls, g)

\* server.py lines 162-226
handle_get_prompt(name, arguments, ctor, lib) ==
    IF name = "summarize-notes"
    THEN Handled(summarize_notes(PromptArguments(arguments)), <<>>, ClientUntouched)
    ELSE IF name = "analyze-salesforce-data"
    THEN analyze_salesforce_data(PromptArguments(arguments), ctor, lib)
    ELSE Handled(Raise("ValueError", "Unknown prompt: " \o name), <<>>, ClientUntouched)

GetPrompt(name, arguments, ctor, f, v) ==
    Handle("handle_get_prompt",
           [name |-> name, ctor |-> ctor, failure |-> f, response |-> v,
            arguments |-> arguments],
           handle_get_prompt(name, arguments, ctor, Lib(f, v)), ctor, FALSE)

\* The analyze prompt reaches the client / the query.
PromptReachesClient(name, object, limit) ==
    /\ name = "analyze-salesforce-data"
    /\ ~Falsy(object)
    /\ PromptLimit(limit).kind = "ok"

\* server.py lines 22-41: create_resource
create_resource(uri, name, description, mime_type) ==
    [name |-> name, uri |-> uri, description |-> description, mimeType |-> mime_type]

\* server.py lines 75-83: one resource per note, in list_notes() order.
NoteResources ==
    [i \in 1..Len(notes) |->
        create_resource("note://internal/" \o notes[i].name, "Note: " \o notes[i].name,
                        "A simple note named " \o notes[i].name, "text/plain")]

\* server.py lines 90-98: one resource per CRM object name.
ObjectResources(names) ==
    [i \in 1..Len(names) |->
        create_resource("salesforce://object/" \o names[i], "Salesforce: " \o names[i],
                        "Salesforce " \o names[i] \o " object", "application/json")]

\* A plausible slip: the error of the object listing is not caught.
ListedOrNothingPropagating(listed) ==
    IF listed.kind = "ok" THEN Return(NoteResources \o ObjectResources(listed.value))
    ELSE listed

\* server.py lines 88-100: the objects are appended unless listing them
\* raised a SalesforceError.
ListedOrNothing(listed) ==
    IF listed.kind = "ok" THEN Return(NoteResources \o ObjectResources(listed.value))
    ELSE IF listed.kind \in SalesforceErrorClasses THEN Return(NoteResources)
    ELSE listed

\* server.py lines 67-102.  When the probe answers True a client is cached,
\* so the get_salesforce_client() of line 88 returns it.
handle_list_resources(ctor, lib) ==
    LET p == Probe(ctor)
        listing == get_available_objects(lib)
    IN IF p.out.kind # "ok" THEN Handled(p.out, ConstructorLog(p), p)
       ELSE IF ~p.out.value THEN Handled(Return(NoteResources), ConstructorLog(p), p)
       ELSE Handled(ListedOrNothing(listing.out), ConstructorLog(p) \o listing.calls, p)

SalesforceToolNames ==
    <<"salesforce-query", "salesforce-create", "salesforce-update", "salesforce-delete">>

\* A plausible slip: the Salesforce entries are listed whatever the probe says.
ListedWhenAlways(available, always, extra) == always \o extra

\* server.py lines 141 and 250: the Salesforce entries are listed when
\* state.has_salesforce_client() answers True.
ListedWhen(available, always, extra) == IF available THEN always \o extra ELSE always

\* The names of what a listing handler returns, after its probe.
Listing(ctor, always, extra) ==
    LET p == Probe(ctor) IN
    IF p.out.kind # "ok" THEN Handled(p.out, ConstructorLog(p), p)
    ELSE Handled(Return(ListedWhen(p.out.value, always, extra)), ConstructorLog(p), p)

\* server.py lines 120-161
handle_list_prompts(ctor) ==
    Listing(ctor, <<"summarize-notes">>, <<"analyze-salesforce-data">>)

\* server.py lines 228-303
handle_list_tools(ctor) == Listing(ctor, <<"add-note">>, SalesforceToolNames)

ListResources(ctor, f, v) ==
    Handle("handle_list_resources", [ctor |-> ctor, failure |-> f, response |-> v],
           handle_list_resources(ctor, Lib(f, v)), ctor, TRUE)

ListPrompts(ctor) ==
    Handle("handle_list_prompts", [ctor |-> ctor], handle_list_prompts(ctor), ctor, TRUE)

ListTools(ctor) ==
    Handle("handle_list_tools", [ctor |-> ctor], handle_list_tools(ctor), ctor, TRUE)

\* state.has_salesforce_client() answers True.
Available(ctor) == Probe(ctor).out.kind = "ok" /\ Probe(ctor).out.value

ServerInit ==
    /\ StateInit
    /\ last = Call("__init__", <<>>, Return(None), <<>>)

\* state.get_salesforce_client() invokes the constructor / returns a client.
Constructs == GetClient(FALSE, "ok").invoked

Obtains(ctor) == GetClient(FALSE, ctor).out.kind = "ok"

CreatedResponse == [success |-> TRUE, id |-> "001", errors |-> None]

\* The argument mapping of a tool call: the value of each key the handlers
\* read, and of some other key, None when the key is absent.
NoArguments ==
    [name |-> None, content |-> None, id |-> None, query |-> None, data |-> None,
     object |-> None, other |-> None]

\* The `arguments` handed to handle_call_tool: None, {} and some mappings.
CallToolArguments ==
    {None, Some(NoArguments),
     Some([NoArguments EXCEPT !.other = Some("z")]),
     Some([NoArguments EXCEPT !.name = Some("a"), !.content = Some("y")]),
     Some([NoArguments EXCEPT !.query = Some("SELECT Id FROM Account")]),
     Some([NoArguments EXCEPT !.object = Some("Account"), !.id = Some("001"),
                              !.data = Some(<<[name |-> "Name", content |-> "Acme"]>>)])}

CallToolNames ==
    {"add-note", "salesforce-query", "salesforce-create", "salesforce-update",
     "salesforce-delete", "unknown"}

\* What a tool handler did, and whether it stored a note.
Dispatched(h, stored) ==
    [attempted |-> h.attempted, calls |-> h.calls, invoked |-> h.invoked, out |-> h.out,
     client |-> h.client, stored |-> stored]

\* server.py line 466: `not arguments`
EmptyArguments(name, arguments) == arguments = None \/ arguments = Some(NoArguments)

\* server.py lines 458-482
handle_call_tool(name, arguments, ctor, found, lib, notify) ==
    IF EmptyArguments(name, arguments)
    THEN Dispatched(Missing("Missing arguments"), FALSE)
    ELSE IF name = "add-note"
    THEN LET h == handle_add_note(arguments[1], notify) IN
         Dispatched(Handled(h.out, h.calls, ClientUntouched), h.stored)
    ELSE IF name = "salesforce-query"
    THEN Dispatched(handle_salesforce_query(arguments[1], ctor, lib), FALSE)
    ELSE IF name = "salesforce-create"
    THEN Dispatched(handle_salesforce_create(arguments[1], ctor, found, lib, notify), FALSE)
    ELSE IF name = "salesforce-update"
    THEN Dispatched(handle_salesforce_update(arguments[1], ctor, found, lib), FALSE)
    ELSE IF name = "salesforce-delete"
    THEN Dispatched(handle_salesforce_delete(arguments[1], ctor, found, lib, notify), FALSE)
    ELSE Dispatched(Missing("Unknown tool: " \o name), FALSE)

\* What the CRM library answers to the one call a dispatched tool makes.
AnswerTo(name) ==
    IF name = "salesforce-query" THEN Lib(None, [records |-> Some(<<"r1">>)])
    ELSE IF name = "salesforce-create" THEN Lib(None, CreatedResponse)
    ELSE Lib(None, None)

CallTool(name, arguments, ctor, notify) ==
    LET h == handle_call_tool(name, arguments, ctor, TRUE, AnswerTo(name), notify) IN
    /\ notes' = IF h.stored
                THEN DictSet(notes, arguments[1].name[1], arguments[1].content[1])
                ELSE notes
    /\ written' = IF h.stored
                  THEN [written EXCEPT ![arguments[1].name[1]] = Some(arguments[1].content[1])]
                  ELSE written
    /\ ApplyGetClient(h, ctor, FALSE)
    /\ last' = Call("handle_call_tool",
                    [name |-> name, ctor |-> ctor, notify |-> notify, arguments |-> arguments],
                    h.out, h.calls)
    /\ UNCHANGED requests

ServerNext ==
    \/ \E n \in ToolNameArgs, c \in ToolContentArgs :
       \E notify \in Only(~Falsy(n) /\ ~Falsy(c), NotifyOutcomes, "ok") :
           ToolAddNote([name |-> n, content |-> c], notify)
    \/ \E q \in ToolQueryArgs :
       \E ctor \in Only(~Falsy(q) /\ Constructs, ConstructorOutcomes, "ok") :
       \E f \in Only(~Falsy(q) /\ Obtains(ctor), ToolLibFailures, None) :
       \E v \in Only(~Falsy(q) /\ Obtains(ctor) /\ f = None, QueryResponses,
                     [records |-> None]) :
           ToolQuery([query |-> q], ctor, f, v)
    \/ \E o \in ToolObjectArgs, d \in ToolDataArgs :
       \E ctor \in Only(~Falsy(o) /\ ~FalsyDict(d) /\ Constructs, ConstructorOutcomes, "ok") :
       \E found \in Only(~Falsy(o) /\ ~FalsyDict(d) /\ Obtains(ctor), BOOLEAN, TRUE) :
       \E f \in Only(~Falsy(o) /\ ~FalsyDict(d) /\ Obtains(ctor) /\ found,
                     ToolLibFailures, None) :
       \E v \in Only(~Falsy(o) /\ ~FalsyDict(d) /\ Obtains(ctor) /\ found /\ f = None,
                     CreateResponses, CreatedResponse) :
       \E notify \in Only(~Falsy(o) /\ ~FalsyDict(d) /\ Obtains(ctor) /\ found /\ f = None
                          /\ v.success, NotifyOutcomes, "ok") :
           ToolCreate([data |-> d, object |-> o], ctor, found, f, v, notify)
    \/ \E o \in ToolObjectArgs, i \in ToolIdArgs, d \in ToolDataArgs :
       \E ctor \in Only(~Falsy(o) /\ ~Falsy(i) /\ ~FalsyDict(d) /\ Constructs,
                        ConstructorOutcomes, "ok") :
       \E found \in Only(~Falsy(o) /\ ~Falsy(i) /\ ~FalsyDict(d) /\ Obtains(ctor),
                         BOOLEAN, TRUE) :
       \E f \in Only(~Falsy(o) /\ ~Falsy(i) /\ ~FalsyDict(d) /\ Obtains(ctor) /\ found,
                     ToolLibFailures, None) :
           ToolUpdate([id |-> i, data |-> d, object |-> o], ctor, found, f)
    \/ \E o \in ToolObjectArgs, i \in ToolIdArgs :
       \E ctor \in Only(~Falsy(o) /\ ~Falsy(i) /\ Constructs, ConstructorOutcomes, "ok") :
       \E found \in Only(~Falsy(o) /\ ~Falsy(i) /\ Obtains(ctor), BOOLEAN, TRUE) :
       \E f \in Only(~Falsy(o) /\ ~Falsy(i) /\ Obtains(ctor) /\ found,
                     ToolLibFailures, None) :
       \E notify \in Only(~Falsy(o) /\ ~Falsy(i) /\ Obtains(ctor) /\ found /\ f = None,
                          NotifyOutcomes, "ok") :
           ToolDelete([id |-> i, object |-> o], ctor, found, f, notify)
    \/ \E uri \in ServerUris :
       \E ctor \in Only(ProbeInitializes, ConstructorOutcomes, "ok") :
       \E crm \in Only(uri.scheme = Some("salesforce"), CrmOutcomes, "ok") :
           ReadResource(uri, ctor, crm)
    \/ \E o \in ObjectNames, d \in RecordData, found \in BOOLEAN :
       \E f \in Only(found, ToolLibFailures, None) :
       \E v \in Only(found /\ f = None, CreateResponses, CreatedResponse) :
           ClientCreate(o, d, found, f, v)
    \/ \E name \in PromptNames :
       \E style \in Only(name = "summarize-notes", PromptStyleArgs, None) :
       \E object \in Only(name = "analyze-salesforce-data", ToolObjectArgs, None) :
       \E limit \in Only(name = "analyze-salesforce-data" /\ ~Falsy(object),
                         PromptLimitArgs, None) :
       \E given \in Only(style = None /\ object = None /\ limit = None, BOOLEAN, TRUE) :
       \E ctor \in Only(PromptReachesClient(name, object, limit) /\ Constructs,
                        ConstructorOutcomes, "ok") :
       \E f \in Only(PromptReachesClient(name, object, limit) /\ Obtains(ctor),
                     ToolLibFailures, None) :
       \E v \in Only(PromptReachesClient(name, object, limit) /\ Obtains(ctor) /\ f = None,
                     QueryResponses, [records |-> None]) :
           GetPrompt(name,
                     IF given THEN Some([object |-> object, style |-> style, limit |-> limit])
                     ELSE None,
                     ctor, f, v)
    \/ \E ctor \in Only(ProbeInitializes, ConstructorOutcomes, "ok") :
       \E f \in Only(Available(ctor), ToolLibFailures, None) :
       \E v \in Only(Available(ctor) /\ f = None, DescribeResponses, [sobjects |-> None]) :
           ListResources(ctor, f, v)
    \/ \E ctor \in Only(ProbeInitializes, ConstructorOutcomes, "ok") : ListPrompts(ctor)
    \/ \E ctor \in Only(ProbeInitializes, ConstructorOutcomes, "ok") : ListTools(ctor)
    \/ \E name \in CallToolNames, arguments \in CallToolArguments :
       \E ctor \in Only(handle_call_tool(name, arguments, "ok", TRUE, AnswerTo(name),
                                         "ok").invoked,
                        ConstructorOutcomes, "ok") :
       \E notify \in Only(name = "add-note" /\ arguments # None
                              /\ handle_add_note(arguments[1], "ok").stored,
                          NotifyOutcomes, "ok") :
           CallTool(name, arguments, ctor, notify)

SpecServer == ServerInit /\ [][ServerNext]_vars

-----------------------------------------------------------------------------
(* Properties of the protocol handlers, checked under SpecServer.          *)

\* The text of the response the handler recorded in `last` returned.
Text == last.value[1].text

StartsWith(s, prefix) == Len(s) >= Len(prefix) /\ SubSeq(s, 1, Len(prefix)) = prefix

\* The number of logged calls with this name made by the call in `last`.
Count(name) == Cardinality({i \in 1..Len(last.calls) : last.calls[i][1] = name})

\* text reports the errors of a create response: each of them, adjacent ones
\* separated by "; ", or "Unknown error" when there is none.
Reports(text, errors) ==
    IF errors = None \/ errors = Some(<<>>) THEN Contains(text, "Unknown error")
    ELSE /\ \A i \in 1..Len(errors[1]) : Contains(text, errors[1][i])
         /\ \A i \in 1..(Len(errors[1]) - 1) :
                Contains(text, errors[1][i] \o "; " \o errors[1][i + 1])

\* The CRM library answered the create call of the call in `last`.
CreateAnswered == Count("create") = 1 /\ last.args.failure = None

SalesforceTools ==
    {"handle_salesforce_query", "handle_salesforce_create", "handle_salesforce_update",
     "handle_salesforce_delete"}

\* The tools that look an object up by name before they call the library.
ObjectTools ==
    {"handle_salesforce_create", "handle_salesforce_update", "handle_salesforce_delete"}

\* The text an error response of the handler in `last` begins with.
ErrorPrefix ==
    CASE last.op = "handle_salesforce_query" -> "Error executing query"
      [] last.op = "handle_salesforce_create" -> "Error creating record"
      [] last.op = "handle_salesforce_update" -> "Error updating record"
      [] last.op = "handle_salesforce_delete" -> "Error deleting record"

\* The required arguments of the tool call in `last`.
Required ==
    CASE last.op = "handle_add_note" -> <<last.args.arguments.name, last.args.arguments.content>>
      [] last.op = "handle_salesforce_query" -> <<last.args.arguments.query>>
      [] last.op = "handle_salesforce_create" ->
             <<last.args.arguments.object, last.args.arguments.data>>
      [] last.op = "handle_salesforce_update" ->
             <<last.args.arguments.object, last.args.arguments.id, last.args.arguments.data>>
      [] last.op = "handle_salesforce_delete" ->
             <<last.args.arguments.object, last.args.arguments.id>>

\* An argument is absent; it is present and empty.
SomeAbsent == \E i \in 1..Len(Required) : Required[i] = None

SomeEmpty == \E i \in 1..Len(Required) : Required[i] # None /\ Len(Required[i][1]) = 0

\* The call in `last` got no client from the state holder, and why.
NoClientObtained ==
    last.pre.sf_client = None /\ (last.pre.attempted \/ last.args.ctor # "ok")

AcquisitionMessage == IF last.pre.attempted THEN PreviouslyFailed ELSE last.args.ctor

ReturnedError(message) ==
    /\ last.kind = "ok"
    /\ StartsWith(Text, ErrorPrefix)
    /\ Contains(Text, message)

\* C12: a Salesforce tool handler whose arguments pass validation never
\* raises a categorized CRM error: when the client cannot be obtained
\* (construction fails, or failed before), when the object is not found and
\* when the CRM library raises, the handler returns a response whose text
\* begins with its error prefix and contains the error's message.
C12_ErrorsBecomeResponses ==
    (last.op \in SalesforceTools /\ ~SomeAbsent /\ ~SomeEmpty) =>
        /\ last.kind \notin SalesforceErrorClasses
        /\ NoClientObtained => ReturnedError(AcquisitionMessage)
        /\ (~NoClientObtained /\ last.op \in ObjectTools /\ ~last.args.found) =>
               ReturnedError("not found")
        /\ (~NoClientObtained /\ last.args.failure # None
            /\ (last.op \in ObjectTools => last.args.found)) =>
               ReturnedError(last.args.failure[1])

\* A query after a failed initialization was answered with the memoized
\* authentication error as text.
C12_Witness ==
    /\ last.op = "handle_salesforce_query"
    /\ ~SomeAbsent /\ ~SomeEmpty
    /\ last.pre.attempted
    /\ last.pre.sf_client = None
    /\ last.kind = "ok"
    /\ Contains(Text, "previously failed")
    /\ last.calls = <<>>

\* The tool handler in `last` caught a categorized CRM error and answered
\* with its error response.
AnsweredError ==
    /\ last.op \in SalesforceTools
    /\ last.kind = "ok"
    /\ StartsWith(Text, ErrorPrefix)

\* C13 as stated: the response a tool handler returns on a categorized CRM
\* error is flagged as a failure, that is, it differs from the response that
\* format_response builds for success=True with the same message.
C13_Original ==
    AnsweredError => last.value # format_response(TRUE, Text, None)

ToolHandlers == {"handle_add_note"} \cup SalesforceTools

\* The call in `last` left the state holder as it found it.
StateUntouched ==
    /\ notes = last.pre.notes
    /\ sf_client = last.pre.sf_client
    /\ sf_initialization_attempted = last.pre.attempted
    /\ constructed = last.pre.constructed

\* C14: a tool handler called without one of its required arguments
\* (add-note: name, content; query: query; create: object, data; update:
\* object, id, data; delete: object, id) raises ValueError, and has then
\* changed neither the note mapping nor the cached client nor the attempted
\* flag, has not invoked the constructor, has made no CRM call and has sent
\* no notification.
C14_ArgumentsCheckedFirst ==
    (last.op \in ToolHandlers /\ SomeAbsent) =>
        /\ last.kind = "ValueError"
        /\ StartsWith(last.msg, "Missing")
        /\ StateUntouched
        /\ last.calls = <<>>

\* An update without a record id was refused while nothing had been
\* initialized, its other arguments being valid.
C14_Witness ==
    /\ last.op = "handle_salesforce_update"
    /\ last.args.arguments.id = None
    /\ last.args.arguments.object = Some("Account")
    /\ last.args.arguments.data # None /\ last.args.arguments.data # Some(<<>>)
    /\ last.kind = "ValueError"
    /\ ~last.pre.attempted
    /\ last.pre.notes # <<>>

Notifications == Count("send_resource_list_changed")

\* The tool call in `last` succeeded: it returned its success response.
Succeeded ==
    /\ last.kind = "ok"
    /\ \/ last.op = "handle_add_note" /\ StartsWith(Text, "Added note")
       \/ last.op = "handle_salesforce_create" /\ StartsWith(Text, "Created")
       \/ last.op = "handle_salesforce_delete" /\ StartsWith(Text, "Deleted")

\* It failed with an argument error, or with a CRM error turned into text.
FailedOnArgumentsOrCrm == last.kind = "ValueError" \/ AnsweredError

\* C15: an add-note, salesforce-create or salesforce-delete call that
\* succeeds sends the resource-list-changed notification exactly once; one
\* that fails with an argument error or a CRM error sends none; and
\* salesforce-query and salesforce-update never send one.
C15_NotifiesOncePerMutation ==
    /\ (last.op \in {"handle_add_note", "handle_salesforce_create", "handle_salesforce_delete"}) =>
           /\ Succeeded => Notifications = 1
           /\ FailedOnArgumentsOrCrm => Notifications = 0
    /\ (last.op \in {"handle_salesforce_query", "handle_salesforce_update"}) =>
           Notifications = 0

\* A delete went through and was announced once, after the CRM call.
C15_Witness ==
    /\ last.op = "handle_salesforce_delete"
    /\ Succeeded
    /\ Notifications = 1
    /\ last.calls[Len(last.calls)][1] = "send_resource_list_changed"
    /\ Count("delete") = 1

\* What read_resource did inside the handle_read_resource call in `last`:
\* the handler passes it the notes and the client cached when it is called.
Resolution == read_resource(last.args.uri, notes, sf_client, last.args.crm).out

ResolutionErrors == {"UriParseError", "ResourceNotFoundError"} \cup SalesforceErrorClasses

\* C16: handle_read_resource lets no parse error, not-found error or
\* categorized CRM error of the URI resolution escape: each is raised again as
\* a ValueError whose message contains the original message, so a failed
\* resolution only ever raises ValueError.
C16_OnlyValueErrorEscapes ==
    last.op = "handle_read_resource" =>
        /\ last.kind \in {"ok", "ValueError"}
        /\ Resolution.kind = "ok" => last.kind = "ok" /\ last.value = Resolution.value
        /\ Resolution.kind \in ResolutionErrors =>
               /\ last.kind = "ValueError"
               /\ Contains(last.msg, Resolution.msg)
               /\ Len(last.msg) > Len(Resolution.msg)

\* A record read failed inside the CRM client and came out as a ValueError.
C16_Witness ==
    /\ last.op = "handle_read_resource"
    /\ last.args.uri.path = Some("/object/Account/001")
    /\ Resolution.kind = "SalesforceAuthError"
    /\ last.kind = "ValueError"
    /\ StartsWith(last.msg, "Salesforce error: ")
    /\ Count("get_record") = 1

-----------------------------------------------------------------------------
(* Further properties of the CRM client wrapper, checked under SpecClient. *)

\* The arguments and the collaborators' behaviour of the get_record call in
\* `last`.
FieldsGiven == last.args[3] # None /\ last.args[3] # Some(<<>>)

ObjectFound == last.args[4]

\* "SELECT <fields joined by ', '> FROM <object> WHERE Id = '<id>'"
SelectById(fields, object_name, record_id) ==
    "SELECT " \o JoinWith(fields, ", ") \o " FROM " \o object_name
    \o " WHERE Id = '" \o record_id \o "'"

\* With a field list, get_record makes exactly one query, of the form above,
\* and no by-id fetch, and returns the first record or an empty mapping.
QueriesOnce ==
    /\ last.calls = << <<"client.query", SelectById(last.args[3][1], last.args[1], last.args[2])>> >>
    /\ last.args[5] = None =>
           /\ last.kind = "ok"
           /\ last.value = IF last.args[6].records = None \/ last.args[6].records = Some(<<>>)
                           THEN <<>> ELSE last.args[6].records[1][1]

Blank(v) == v = None \/ Len(v[1]) = 0

\* The value a credential resolves to: the explicit parameter when it is
\* given (and not empty), else the environment variable.
Resolved(field) ==
    IF ~Blank(last.args.given[field]) THEN last.args.given[field]
    ELSE last.args.env[field]

\* The domain: the parameter, else the environment variable when it is set,
\* else "login".
ResolvedDomain ==
    IF ~Blank(last.args.given.domain) THEN last.args.given.domain
    ELSE IF last.args.env.domain # None THEN last.args.env.domain
    ELSE Some("login")

RequiredVariables ==
    { <<"username", "SALESFORCE_USERNAME">>, <<"password", "SALESFORCE_PASSWORD">>,
      <<"security_token", "SALESFORCE_SECURITY_TOKEN">> }

\* C18: SalesforceClient(...) takes each credential from the explicit
\* parameter first and from the environment second, the domain defaulting to
\* "login".  If the username, the password or the security token is missing it
\* raises an authentication error that names exactly the missing variables,
\* and does not attempt the login; otherwise it attempts the login exactly
\* once, with the resolved values, and a failure of the login is raised as an
\* authentication error.
C18_CredentialResolution ==
    last.op = "SalesforceClient" =>
        IF \E v \in RequiredVariables : Blank(Resolved(v[1]))
        THEN /\ last.kind = "SalesforceAuthError"
             /\ last.calls = <<>>
             /\ \A v \in RequiredVariables :
                    Contains(last.msg, v[2]) <=> Blank(Resolved(v[1]))
        ELSE /\ last.calls = << <<"Salesforce", Resolved("username"), Resolved("password"),
                                  Resolved("security_token"), ResolvedDomain>> >>
             /\ last.args.login = None => last.kind = "ok"
             /\ last.args.login # None =>
                    /\ last.kind = "SalesforceAuthError"
                    /\ Contains(last.msg, last.args.login[1])

\* The username came from the parameter, the password from the environment
\* although an empty parameter was passed, the domain from the default, and
\* the login failed.
C18_Witness ==
    /\ last.op = "SalesforceClient"
    /\ last.args.given.username = Some("p") /\ last.args.env.username = Some("e")
    /\ last.args.given.password = Some("") /\ last.args.env.password = Some("e")
    /\ last.args.given.domain = None /\ last.args.env.domain = None
    /\ last.calls = << <<"Salesforce", Some("p"), Some("e"), Some("e"), Some("login")>> >>
    /\ last.kind = "SalesforceAuthError"
    /\ Contains(last.msg, "INVALID_LOGIN")

-----------------------------------------------------------------------------
(* get_salesforce_client run by concurrent requests: state.py lines 64-78,  *)
(* one statement at a time.  A request is at the statement it executes      *)
(* next; `invoked` tells whether it has run line 72.                        *)

\* A plausible slip: line 72 looks at the cache again before constructing.
Line72ConstructsUnlessCached(force_new) == force_new \/ sf_client = None

\* state.py line 72 constructs whatever was cached since line 64 was passed.
Line72Constructs(force_new) == TRUE

\* One statement of request p: its new record, and the statement as the
\* most recent call.
Step(p, line, next, outcome) ==
    /\ requests' = [requests EXCEPT ![p] = next]
    /\ last' = Call(line, <<p>>, outcome, <<>>)

At(p, line) == requests[p].at = line

Goto(p, line) == [requests[p] EXCEPT !.at = line]

Finish(p, outcome) == [requests[p] EXCEPT !.at = "done", !.result = outcome]

\* A request calls get_salesforce_client(force_new).
Enter(p, force_new) ==
    /\ At(p, "idle")
    /\ Step(p, "call", [Goto(p, "L64") EXCEPT !.force_new = force_new], Return(None))
    /\ UNCHANGED <<notes, sf_client, sf_initialization_attempted, constructed,
                   lastCtorFailed, hasConstructed, written>>

\* if force_new or self._sf_client is None:
Line64(p) ==
    /\ At(p, "L64")
    /\ Step(p, "L64",
            IF NeedsConstruction(requests[p].force_new) THEN Goto(p, "L65") ELSE Goto(p, "L78"),
            Return(None))
    /\ UNCHANGED <<notes, sf_client, sf_initialization_attempted, constructed,
                   lastCtorFailed, hasConstructed, written>>

\* if self._sf_initialization_attempted and not force_new: raise ...
Line65(p) ==
    /\ At(p, "L65")
    /\ IF ShortCircuits(requests[p].force_new)
       THEN Step(p, "L65", Finish(p, Raise("SalesforceAuthError", PreviouslyFailed)),
                 Raise("SalesforceAuthError", PreviouslyFailed))
       ELSE Step(p, "L65", Goto(p, "L72"), Return(None))
    /\ UNCHANGED <<notes, sf_client, sf_initialization_attempted, constructed,
                   lastCtorFailed, hasConstructed, written>>

\* self._sf_client = SalesforceClient()
Line72(p, ctor) ==
    /\ At(p, "L72")
    /\ constructed < MaxConstructions
    /\ IF ~Line72Constructs(requests[p].force_new)
       THEN /\ Step(p, "L72", Goto(p, "L73"), Return(None))
            /\ UNCHANGED <<sf_client, constructed, lastCtorFailed>>
       ELSE /\ constructed' = constructed + 1
            /\ lastCtorFailed' = (ctor # "ok")
            /\ IF ctor = "ok"
               THEN /\ sf_client' = Some(NewInstance)
                    /\ Step(p, "L72", [Goto(p, "L73") EXCEPT !.invoked = TRUE],
                            Return(NewInstance))
               ELSE /\ sf_client' = sf_client
                    /\ Step(p, "L72",
                            [Goto(p, "L75") EXCEPT !.invoked = TRUE,
                                                   !.result = Raise("SalesforceAuthError", ctor)],
                            Raise("SalesforceAuthError", ctor))
    /\ UNCHANGED <<notes, sf_initialization_attempted, hasConstructed, written>>

\* self._sf_initialization_attempted = True
Line73(p) ==
    /\ At(p, "L73")
    /\ sf_initialization_attempted' = TRUE
    /\ Step(p, "L73", Goto(p, "L78"), Return(None))
    /\ UNCHANGED <<notes, sf_client, constructed, lastCtorFailed, hasConstructed, written>>

\* except SalesforceAuthError as e: self._sf_initialization_attempted = True
Line75(p) ==
    /\ At(p, "L75")
    /\ sf_initialization_attempted' = TRUE
    /\ Step(p, "L75", Goto(p, "L76"), Return(None))
    /\ UNCHANGED <<notes, sf_client, constructed, lastCtorFailed, hasConstructed, written>>

\* raise e
Line76(p) ==
    /\ At(p, "L76")
    /\ Step(p, "L76", Finish(p, requests[p].result), requests[p].result)
    /\ UNCHANGED <<notes, sf_client, sf_initialization_attempted, constructed,
                   lastCtorFailed, hasConstructed, written>>

\* return self._sf_client
Line78(p) ==
    /\ At(p, "L78")
    /\ Step(p, "L78", Finish(p, Return(sf_client[1])), Return(sf_client[1]))
    /\ UNCHANGED <<notes, sf_client, sf_initialization_attempted, constructed,
                   lastCtorFailed, hasConstructed, written>>

RaceInit ==
    /\ StateInit
    /\ last = Call("__init__", <<>>, Return(None), <<>>)

RaceNext ==
    \/ \E p \in Requests, force_new \in BOOLEAN : Enter(p, force_new)
    \/ \E p \in Requests : Line64(p)
    \/ \E p \in Requests : Line65(p)
    \/ \E p \in Requests, ctor \in ConstructorOutcomes : Line72(p, ctor)
    \/ \E p \in Requests : Line73(p)
    \/ \E p \in Requests : Line75(p)
    \/ \E p \in Requests : Line76(p)
    \/ \E p \in Requests : Line78(p)

SpecRace == RaceInit /\ [][RaceNext]_vars

-----------------------------------------------------------------------------
(* Properties of concurrent first-time initialization, checked under       *)
(* SpecRace, which starts with no client cached and no attempt recorded.   *)

\* The request has passed both guards (lines 64 and 65).
PassedGuards(p) == requests[p].at \in {"L72", "L73", "L75", "L76"} \/ requests[p].invoked

\* The requests that have run line 72.
Invokers == {p \in Requests : requests[p].invoked}

\* C19: first-time initialization is not atomic.  Requests interleaved
\* statement by statement can all pass the guards before any of them has
\* constructed; each of them then runs line 72 and invokes the constructor,
\* whatever has been cached meanwhile, so the constructor runs once per
\* request that passed, and the cached client is the one assigned by the most
\* recent successful line 72.
C19_InitializationNotAtomic ==
    /\ constructed = Cardinality(Invokers)
    /\ \A p \in Requests : requests[p].at = "done" /\ PassedGuards(p) => requests[p].invoked
    /\ last.op = "L72" =>
           /\ constructed = last.pre.constructed + 1
           /\ last.kind = "ok" => sf_client = Some(last.value) /\ last.value = constructed
           /\ last.kind # "ok" => sf_client = last.pre.sf_client

\* Two non-forced requests both passed the guards while nothing was cached:
\* two instances were constructed, the second assignment replaced the first,
\* and both requests returned the second instance.
C19_Witness ==
    /\ \A p \in {1, 2} :
           /\ ~requests[p].force_new
           /\ requests[p].at = "done"
           /\ requests[p].invoked
           /\ requests[p].result.kind = "ok"
           /\ requests[p].result.value = 2
    /\ constructed = 2
    /\ sf_client = Some(2)

-----------------------------------------------------------------------------
(* Properties of parse_uri, checked under SpecUri.                         *)

\* The positions of s where a segment starts: a character other than "/"
\* that is the first one or follows a "/".
SegmentStarts(s) ==
    {i \in 1..Len(s) : CharAt(s, i) # "/" /\ (i = 1 \/ CharAt(s, i - 1) = "/")}

\* The segment that starts at position i runs up to the next "/" or the end.
SegmentFrom(s, i) ==
    SubSeq(s, i, CHOOSE j \in i..Len(s) :
                     /\ \A k \in i..j : CharAt(s, k) # "/"
                     /\ (j = Len(s) \/ CharAt(s, j + 1) = "/"))

\* The non-empty slash-delimited segments of s, in order.
Segments(s) ==
    [n \in 1..Cardinality(SegmentStarts(s)) |->
        SegmentFrom(s, CHOOSE i \in SegmentStarts(s) :
                           Cardinality({j \in SegmentStarts(s) : j < i}) = n - 1)]

\* C20: parse_uri returns the scheme of the identifier together with the
\* non-empty slash-delimited segments of its path, in order: an absent or empty
\* path gives no segment, leading, trailing and repeated slashes give no empty
\* segment, and the authority of an identifier given as text is not a segment
\* (note://internal/foo gives ("note", <<"foo">>)).
C20_SchemeAndSegments ==
    /\ (last.op = "parse_uri" /\ ~Falsy(LastUri.scheme)) =>
           /\ last.kind = "ok"
           /\ last.value[1] = LastUri.scheme[1]
           /\ last.value[2] = IF LastUri.path = None THEN <<>> ELSE Segments(LastUri.path[1])
           /\ \A i \in 1..Len(last.value[2]) : last.value[2][i] # ""
    /\ last.op = "parse_uri(AnyUrl)" =>
           /\ last.kind = "ok"
           /\ last.value = <<last.args[2], Segments(last.args[4])>>
           /\ \A i \in 1..Len(last.value[2]) : last.value[2][i] # ""

\* note://internal/foo was parsed.
C20_Witness ==
    /\ last.op = "parse_uri(AnyUrl)"
    /\ last.args[1] = "note://internal/foo"
    /\ last.kind = "ok"
    /\ last.value = <<"note", <<"foo">>>>

-----------------------------------------------------------------------------
(* Properties of the prompt and listing handlers, checked under SpecServer. *)

\* The call in `last` asked for the analyze-salesforce-data prompt.
IsAnalyze == last.op = "handle_get_prompt" /\ last.args.name = "analyze-salesforce-data"

\* The value of a key of its arguments, None when absent.
PromptArg == PromptArguments(last.args.arguments)

\* The row limit a "limit" argument stands for, written in decimal; None for
\* an argument that is no integer literal.
LimitText(limit) ==
    CASE limit = None -> Some("10")
      [] limit = Some("05") -> Some("5")
      [] limit = Some(" 7") -> Some("7")
      [] limit = Some("-1") -> Some("-1")
      [] OTHER -> None

\* The queries the call in `last` sent to the CRM library.
QueriesSent == SelectSeq(last.calls, LAMBDA c : c[1] = "client.query")

\* C21 as stated: an analyze-salesforce-data prompt with an "object" argument
\* issues exactly one CRM query.
C21_Original ==
    (IsAnalyze /\ ~Falsy(PromptArg.object)) => Len(QueriesSent) = 1

\* C21: the analyze-salesforce-data prompt fails with ValueError before any
\* client access when "object" is missing or "limit" is no integer literal;
\* otherwise it asks the state holder for the client and, when it gets one,
\* issues exactly one CRM query, "SELECT * FROM <object> LIMIT <n>", where n is
\* the number the "limit" argument stands for and ten when it is absent; when
\* it gets none it issues no query.  A failed acquisition and a CRM error
\* during the query both surface as ValueError, never as a CRM error.
C21_BoundedQuery ==
    IsAnalyze =>
        /\ last.kind \in {"ok", "ValueError"}
        /\ Falsy(PromptArg.object) =>
               /\ last.kind = "ValueError"
               /\ last.msg = "Missing required argument 'object'"
               /\ last.calls = <<>>
               /\ StateUntouched
        /\ (~Falsy(PromptArg.object) /\ LimitText(PromptArg.limit) = None) =>
               /\ last.kind = "ValueError"
               /\ last.calls = <<>>
               /\ StateUntouched
        /\ (~Falsy(PromptArg.object) /\ LimitText(PromptArg.limit) # None) =>
               /\ NoClientObtained =>
                      /\ QueriesSent = <<>>
                      /\ last.kind = "ValueError"
                      /\ Contains(last.msg, AcquisitionMessage)
               /\ ~NoClientObtained =>
                      /\ QueriesSent =
                             << <<"client.query",
                                  "SELECT * FROM " \o PromptArg.object[1] \o " LIMIT "
                                  \o LimitText(PromptArg.limit)[1]>> >>
                      /\ last.args.failure # None =>
                             /\ last.kind = "ValueError"
                             /\ StartsWith(last.msg, "Error retrieving Salesforce data: ")
                             /\ Contains(last.msg, last.args.failure[1])
                      /\ last.args.failure = None => last.kind = "ok"

\* The prompt was built from one query with the default limit, and from one
\* whose limit argument was written with a leading zero.
C21_Witness ==
    /\ IsAnalyze
    /\ PromptArg.object = Some("Account")
    /\ PromptArg.limit = None
    /\ last.kind = "ok"
    /\ QueriesSent = << <<"client.query", "SELECT * FROM Account LIMIT 10">> >>
    /\ last.args.response.records = Some(<<"r1", "r2">>)
    /\ Contains(last.value.messages[1].text, "\"r1\",")

\* The resources the handle_list_resources call in `last` returned for the
\* stored notes, and the ones it returned after them.
ListedForNotes == SubSeq(last.value, 1, Len(notes))

ListedAfterNotes == SubSeq(last.value, Len(notes) + 1, Len(last.value))

\* C23: handle_list_resources never raises a CRM error: it returns a list
\* that starts with one resource per stored note, in order, with URI
\* note://internal/<name>; the resources after them are CRM object resources
\* with URI salesforce://object/<name>, one per object the CRM listed, and
\* there is none when no client is available or when listing the CRM objects
\* failed: the result is then exactly the note resources.
C23_ListResources ==
    last.op = "handle_list_resources" =>
        /\ last.kind = "ok"
        /\ Len(last.value) >= Len(notes)
        /\ \A i \in 1..Len(notes) :
               last.value[i].uri = "note://internal/" \o notes[i].name
        /\ \A i \in 1..Len(ListedAfterNotes) :
               StartsWith(ListedAfterNotes[i].uri, "salesforce://object/")
        /\ sf_client = None => ListedAfterNotes = <<>> /\ Count("client.describe") = 0
        /\ last.args.failure # None => ListedAfterNotes = <<>>
        /\ (sf_client # None /\ last.args.failure = None) =>
               /\ Count("client.describe") = 1
               /\ IF last.args.response.sobjects = None THEN ListedAfterNotes = <<>>
                  ELSE /\ Len(ListedAfterNotes) = Len(last.args.response.sobjects[1])
                       /\ \A i \in 1..Len(ListedAfterNotes) :
                              ListedAfterNotes[i].uri =
                                  "salesforce://object/" \o last.args.response.sobjects[1][i]

\* With two notes stored and a client cached, listing the CRM objects failed
\* and the two note resources were returned.
C23_Witness ==
    /\ last.op = "handle_list_resources"
    /\ Len(notes) = 2
    /\ sf_client # None
    /\ last.args.failure = Some("LOGIn")
    /\ Count("client.describe") = 1
    /\ last.kind = "ok"
    /\ Len(last.value) = 2
    /\ last.value[2].uri = "note://internal/" \o notes[2].name

\* The names listed by the handle_list_prompts / handle_list_tools call in `last`.
ListedNames == {last.value[i] : i \in 1..Len(last.value)}

\* What is listed whatever the client's state, and what only with a client.
AlwaysListed ==
    IF last.op = "handle_list_tools" THEN {"add-note"} ELSE {"summarize-notes"}

ListedWithClient ==
    IF last.op = "handle_list_tools"
    THEN {"salesforce-query", "salesforce-create", "salesforce-update", "salesforce-delete"}
    ELSE {"analyze-salesforce-data"}

\* has_salesforce_client() answered True in the call in `last`: a client was
\* cached, or nothing had been attempted and the constructor returned one.
ProbedAvailable ==
    \/ last.pre.sf_client # None
    \/ ~last.pre.attempted /\ last.args.ctor = "ok"

\* C24: handle_list_tools always lists add-note and handle_list_prompts always
\* lists summarize-notes; the four Salesforce tools, respectively the
\* analyze-salesforce-data prompt, are listed exactly when
\* has_salesforce_client() answers True at listing time; after a failed client
\* initialization they are not listed and the constructor is not invoked again.
C24_ListedWhenAvailable ==
    last.op \in {"handle_list_tools", "handle_list_prompts"} =>
        /\ last.kind = "ok"
        /\ Len(last.value) = Cardinality(ListedNames)
        /\ ListedNames = IF ProbedAvailable THEN AlwaysListed \cup ListedWithClient
                         ELSE AlwaysListed
        /\ ProbedAvailable <=> sf_client # None
        /\ (last.pre.attempted /\ last.pre.sf_client = None) =>
               /\ ListedNames = AlwaysListed
               /\ last.calls = <<>>
               /\ StateUntouched

\* The tools were listed after the initialization had failed: add-note only.
C24_Witness ==
    /\ last.op = "handle_list_tools"
    /\ last.pre.attempted
    /\ last.pre.sf_client = None
    /\ last.pre.lastCtorFailed
    /\ last.value = <<"add-note">>

\* The message of the ValueError a tool handler raises for a missing argument.
MissingMessage ==
    CASE last.op = "handle_add_note" -> "Missing name or content"
      [] last.op = "handle_salesforce_query" -> "Missing query"
      [] last.op = "handle_salesforce_create" -> "Missing object name or data"
      [] last.op = "handle_salesforce_update" -> "Missing object name, record ID, or data"
      [] last.op = "handle_salesforce_delete" -> "Missing object name or record ID"

\* The call in `last` was refused with this message before anything happened.
Refused(message) ==
    /\ last.kind = "ValueError"
    /\ last.msg = message
    /\ last.calls = <<>>
    /\ StateUntouched

\* C30: a tool handler refuses a required argument that is present but empty
\* (an empty string, an empty data mapping) as it refuses a missing one: it
\* raises the same ValueError, with no state change, no constructor or CRM
\* call and no notification; and handle_call_tool refuses an absent or empty
\* argument mapping with "Missing arguments" whatever the tool name, known
\* or not.
C30_EmptyIsMissing ==
    /\ (last.op \in ToolHandlers /\ (SomeEmpty \/ SomeAbsent)) => Refused(MissingMessage)
    /\ (last.op = "handle_call_tool"
        /\ (last.args.arguments = None \/ last.args.arguments = Some(NoArguments))) =>
           Refused("Missing arguments")

\* A create with an object name and an empty data mapping was refused while
\* a client was cached.
C30_Witness ==
    /\ last.op = "handle_salesforce_create"
    /\ last.args.arguments.object = Some("Account")
    /\ last.args.arguments.data = Some(<<>>)
    /\ last.pre.sf_client # None
    /\ last.kind = "ValueError"
    /\ last.calls = <<>>

\* The initialization had failed before the call in `last` started.
FailedBefore == last.pre.attempted /\ last.pre.sf_client = None

\* C22: whatever sequence of requests the handlers have served, the client
\* constructor has been invoked at most once: a request that finds a client
\* cached leaves that instance in place and does not construct, and a
\* Salesforce tool call that finds the initialization failed returns the
\* "previously failed" error response without another construction.
C22_ConstructedAtMostOnce ==
    /\ constructed <= 1
    /\ sf_client # None => sf_client = Some(1) /\ constructed = 1
    /\ last.pre.sf_client # None =>
           /\ sf_client = last.pre.sf_client
           /\ constructed = last.pre.constructed
    /\ FailedBefore =>
           /\ sf_client = None
           /\ constructed = last.pre.constructed
    /\ (FailedBefore /\ last.op \in SalesforceTools /\ ~SomeAbsent /\ ~SomeEmpty) =>
           /\ ReturnedError(PreviouslyFailed)
           /\ last.calls = <<>>

\* A delete was asked for after a listing's probe had made the one
\* construction attempt, which failed: it was answered with the memoized error.
C22_Witness ==
    /\ last.op = "handle_salesforce_delete"
    /\ ~SomeAbsent /\ ~SomeEmpty
    /\ FailedBefore
    /\ hasConstructed = 1
    /\ constructed = 1
    /\ lastCtorFailed
    /\ last.kind = "ok"
    /\ Contains(Text, "previously failed")

\* The call in `last` read a note:// identifier through handle_read_resource.
IsNoteRead ==
    last.op = "handle_read_resource" /\ last.args.uri.scheme = Some("note")

\* C27: a note:// read through handle_read_resource returns the content of
\* the stored note it names whether the client is cached, can be constructed,
\* cannot be constructed or failed before: no client error surfaces on it.
\* The read leaves the note mapping unchanged and invokes the constructor at
\* most once, only when nothing was attempted before.
C27_NoteReadIgnoresClient ==
    IsNoteRead =>
        /\ last.kind \in {"ok", "ValueError"}
        /\ last.kind = "ValueError" => StartsWith(last.msg, "Resource not found: ")
        /\ \A i \in 1..Len(notes) :
               last.args.uri.path = Some("/" \o notes[i].name) =>
                   last.kind = "ok" /\ last.value = notes[i].content
        /\ notes = last.pre.notes
        /\ Count("SalesforceClient") <= 1
        /\ Count("SalesforceClient") = 1 =>
               ~last.pre.attempted /\ last.pre.sf_client = None

\* A stored note was read by the request whose lazy initialization failed.
C27_Witness ==
    /\ IsNoteRead
    /\ last.args.uri.path = Some("/a")
    /\ Count("SalesforceClient") = 1
    /\ lastCtorFailed
    /\ sf_client = None
    /\ last.kind = "ok"
    /\ HasKey(notes, "a")
    /\ last.value = DictGet(notes, "a")[1]

\* The call in `last` was an add-note whose arguments passed validation.
IsValidAddNote == last.op = "handle_add_note" /\ ~SomeAbsent /\ ~SomeEmpty

\* C29: an add-note whose arguments pass validation stores the note first and
\* sends the resource-list-changed notification second; when sending fails
\* the handler fails, with no rollback: the note is stored with the new
\* content, and every other note is as it was.
C29_StoredBeforeNotified ==
    IsValidAddNote =>
        /\ Len(last.calls) = 2
        /\ last.calls[1] = <<"state.add_note", last.args.arguments.name[1],
                             last.args.arguments.content[1]>>
        /\ last.calls[2] = <<"send_resource_list_changed">>
        /\ DictGet(notes, last.args.arguments.name[1]) = last.args.arguments.content
        /\ \A n \in DOMAIN written :
               n # last.args.arguments.name[1] =>
                   DictGet(notes, n) = DictGet(last.pre.notes, n)
        /\ last.args.notify = "fail" <=> last.kind # "ok"

\* The notification failed after the content of an existing note was replaced.
C29_Witness ==
    /\ IsValidAddNote
    /\ last.args.notify = "fail"
    /\ last.kind = "Exception"
    /\ DictGet(last.pre.notes, "a") = Some("x")
    /\ last.args.arguments = [name |-> Some("a"), content |-> Some("y")]
    /\ DictGet(notes, "a") = Some("y")

-----------------------------------------------------------------------------
(* Every operation on the server state: the methods of the state holder    *)
(* and the handlers of server.py, each handler with arguments that pass    *)
(* its validation, in any order.                                           *)

FrameArguments ==
    [name |-> Some("a"), content |-> Some("y"), id |-> Some("001"),
     query |-> Some("SELECT Id FROM Account"), data |-> Some(<<[name |-> "Name", content |-> "Acme"]>>),
     object |-> Some("Account"), other |-> None]

FrameUris ==
    {[scheme |-> Some("note"), path |-> Some("/a")],
     [scheme |-> Some("salesforce"), path |-> Some("/object/Account/001")]}

FrameLibFailures == {None, Some("x")}

FrameNext ==
    \/ \E n \in {"a", "b"}, c \in {"x", "y"} : add_note(n, c)
    \/ \E n \in {"a", "b"} : get_note(n)
    \/ list_notes
    \/ \E f \in BOOLEAN :
       \E ctor \in Only(GetClient(f, "ok").invoked, ConstructorOutcomes, "ok") :
           get_salesforce_client(f, ctor)
    \/ \E ctor \in Only(ProbeInitializes, ConstructorOutcomes, "ok") :
           has_salesforce_client(ctor)
    \/ \E n \in {Some("a"), Some("b")}, c \in {Some(""), Some("x")}, notify \in NotifyOutcomes :
           ToolAddNote([name |-> n, content |-> c], notify)
    \/ \E ctor \in Only(Constructs, ConstructorOutcomes, "ok"), f \in FrameLibFailures :
           ToolQuery(FrameArguments, ctor, f, [records |-> Some(<<"r1">>)])
    \/ \E ctor \in Only(Constructs, ConstructorOutcomes, "ok"), f \in FrameLibFailures :
           ToolCreate(FrameArguments, ctor, TRUE, f, CreatedResponse, "ok")
    \/ \E ctor \in Only(Constructs, ConstructorOutcomes, "ok"), f \in FrameLibFailures :
           ToolUpdate(FrameArguments, ctor, TRUE, f)
    \/ \E ctor \in Only(Constructs, ConstructorOutcomes, "ok"), f \in FrameLibFailures :
           ToolDelete(FrameArguments, ctor, TRUE, f, "ok")
    \/ \E uri \in FrameUris, ctor \in Only(ProbeInitializes, ConstructorOutcomes, "ok") :
           ReadResource(uri, ctor, "ok")
    \/ \E ctor \in Only(ProbeInitializes, ConstructorOutcomes, "ok"), f \in FrameLibFailures :
           ListResources(ctor, f, [sobjects |-> Some(<<"Account", "Contact">>)])
    \/ \E ctor \in Only(ProbeInitializes, ConstructorOutcomes, "ok") : ListPrompts(ctor)
    \/ \E ctor \in Only(ProbeInitializes, ConstructorOutcomes, "ok") : ListTools(ctor)
    \/ \E name \in {"summarize-notes", "analyze-salesforce-data"} :
       \E ctor \in Only(name = "analyze-salesforce-data" /\ Constructs,
                        ConstructorOutcomes, "ok") :
           GetPrompt(name, Some([object |-> Some("Account"), style |-> None, limit |-> None]),
                     ctor, None, [records |-> Some(<<"r1">>)])
    \/ \E name \in CallToolNames :
       \E ctor \in Only(handle_call_tool(name, Some(FrameArguments), "ok", TRUE,
                                         AnswerTo(name), "ok").invoked,
                        ConstructorOutcomes, "ok") :
           CallTool(name, Some(FrameArguments), ctor, "ok")

SpecFrame == ServerInit /\ [][FrameNext]_vars

\* The name under which the call in `last` asked to store a note; None for
\* a call that asked for nothing of the kind.
AddedName ==
    CASE last.op = "add_note" -> Some(last.args[1])
      [] last.op = "handle_add_note" -> last.args.arguments.name
      [] last.op = "handle_call_tool" /\ last.args.name = "add-note"
         /\ last.args.arguments # None -> last.args.arguments[1].name
      [] OTHER -> None

\* C28: no operation removes a note or changes another note's content.  A
\* call that stores a note under n keeps every note there was, in its place,
\* with the content of every note other than n unchanged, and changes neither
\* the cached client nor the attempted flag nor the constructor count; every
\* other call (listing, reading, prompts, Salesforce tools, client get and
\* probe) leaves the whole note mapping as it was.
C28_NotesFrame ==
    /\ Len(notes) >= Len(last.pre.notes)
    /\ \A i \in 1..Len(last.pre.notes) :
           /\ notes[i].name = last.pre.notes[i].name
           /\ Some(notes[i].name) # AddedName => notes[i] = last.pre.notes[i]
    /\ AddedName = None => notes = last.pre.notes
    /\ AddedName # None =>
           /\ sf_client = last.pre.sf_client
           /\ sf_initialization_attempted = last.pre.attempted
           /\ constructed = last.pre.constructed
           /\ Len(notes) <= Len(last.pre.notes) + 1

\* A note was stored under "b" while "a" was stored and a client was cached.
C28_Witness ==
    /\ last.op = "add_note"
    /\ last.args[1] = "b"
    /\ HasKey(last.pre.notes, "a")
    /\ ~HasKey(last.pre.notes, "b")
    /\ DictGet(notes, "a") = DictGet(last.pre.notes, "a")
    /\ HasKey(notes, "b")
    /\ sf_client # None
    /\ sf_client = last.pre.sf_client

-----------------------------------------------------------------------------
(* Listing the notes and reading what was listed: the note names include   *)
(* one with a "/" in it, which add-note accepts like any non-empty name.   *)

RoundTripNames == {"a", "b", "a/b"}

RoundTripContents == {"x", "y"}

\* handle_add_note: the state holder stores the note under any name.
StoreNote(name, content, notify) ==
    LET h == handle_add_note([name |-> Some(name), content |-> Some(content)], notify) IN
    /\ notes' = IF h.stored THEN DictSet(notes, name, content) ELSE notes
    /\ last' = Call("handle_add_note",
                    [notify |-> notify,
                     arguments |-> [name |-> Some(name), content |-> Some(content)]],
                    h.out, h.calls)
    /\ written' = IF h.stored /\ name \in DOMAIN written
                  THEN [written EXCEPT ![name] = Some(content)]
                  ELSE written
    /\ UNCHANGED <<sf_client, sf_initialization_attempted, constructed,
                   lastCtorFailed, hasConstructed, requests>>

\* handle_read_resource called with the identifier that handle_list_resources
\* lists for the i-th note, parsed as the protocol layer parses it.
ReadListed(i, ctor) ==
    LET listed == NoteResources[i].uri IN
    Handle("handle_read_resource(listed)",
           [ctor |-> ctor, listed |-> listed, index |-> i],
           handle_read_resource(AnyUrl(listed), ctor, "ok"), ctor, TRUE)

RoundTripNext ==
    \/ \E n \in RoundTripNames, c \in RoundTripContents : StoreNote(n, c, "ok")
    \/ \E ctor \in Only(ProbeInitializes, ConstructorOutcomes, "ok") :
           ListResources(ctor, None, [sobjects |-> None])
    \/ \E i \in 1..Len(notes) :
       \E ctor \in Only(ProbeInitializes, ConstructorOutcomes, "ok") :
           ReadListed(i, ctor)

SpecRoundTrip == ServerInit /\ [][RoundTripNext]_vars

\* C25 as stated: for every stored note, reading the identifier that
\* handle_list_resources lists for it returns that note's current content.
C25_Original ==
    last.op = "handle_read_resource(listed)" =>
        /\ last.args.listed = "note://internal/" \o notes[last.args.index].name
        /\ last.kind = "ok"
        /\ last.value = notes[last.args.index].content

=============================================================================
